---- MODULE Spec2Model ----
(***************************************************************************)
(* The exec approval coordination engine of the gateway: the protocol      *)
(* handlers of src/gateway/server-methods/exec-approval.ts over the        *)
(* ExecApprovalManager registry (gateway/exec-approval-manager.ts), run on *)
(* the single-threaded event loop: a handler runs to its first await, the  *)
(* continuations of a fulfilled promise run as microtasks before the next  *)
(* handler or timer.                                                       *)
(***************************************************************************)
EXTENDS Integers, Sequences, FiniteSets, TLC

\* ------------------------------------------------------------------ bounds
\* request, waitDecision and resolve calls made in one run
MaxCalls == 3
\* the clock runs from 0 to MaxTime
MaxTime == 1

\* ------------------------------------------------------------- identifiers
\* /^[0-9a-f]{8}$/i : the length of a short id
SlugLen == 8

HexLower == {"0", "1", "2", "3", "4", "5", "6", "7", "8", "9", "a", "b", "c", "d", "e", "f"}
HexUpper == {"A", "B", "C", "D", "E", "F"}

\* String.prototype.toLowerCase on one character
ToLower(ch) ==
  CASE ch = "A" -> "a" [] ch = "B" -> "b" [] ch = "C" -> "c"
    [] ch = "D" -> "d" [] ch = "E" -> "e" [] ch = "F" -> "f"
    [] OTHER -> ch

LowerCase(s) == [i \in 1..Len(s) |-> ToLower(s[i])]

\* a pattern without its anchors: hexadecimal characters, eight or not
IsSlugOfAnyLength(s) ==
  /\ Len(s) >= 1
  /\ \A i \in 1..Len(s) : s[i] \in HexLower \cup HexUpper

\* APPROVAL_ID_SLUG_PATTERN.test(s)
IsSlug(s) ==
  /\ Len(s) = SlugLen
  /\ \A i \in 1..Len(s) : s[i] \in HexLower \cup HexUpper

\* id.toLowerCase().startsWith(prefix.toLowerCase())
StartsWith(id, prefix) ==
  /\ Len(prefix) <= Len(id)
  /\ LowerCase(SubSeq(id, 1, Len(prefix))) = LowerCase(prefix)

SlugId == <<"a", "b", "1", "2", "c", "d", "3", "4">>
SlugIdUpper == <<"A", "B", "1", "2", "C", "D", "3", "4">>
IdA == SlugId \o <<"-", "1">>
IdB == SlugId \o <<"-", "2">>
IdC == <<"f", "f", "0", "0", "f", "f", "0", "0", "-", "1">>
ShortId == <<"a", "b", "1", "2">>
\* typed ids of other shapes: nine characters, and eight with one that is not
\* hexadecimal, each the beginning of an id
LongPrefix == SlugId \o <<"-">>
NonHexPrefix == <<"a", "b", "1", "2", "c", "d", "3", "g">>
NonHexId == NonHexPrefix \o <<"-", "1">>

\* what randomUUID() may return
GeneratedIds == {IdA, IdB, IdC}
\* params.id absent (or blank)
NoId == <<>>

Null == "null"
\* a timestamp not set yet
NoTime == 0 - 1
\* a decision check that lets one more tag through
DecisionsAndMaybe == {"allow-once", "allow-always", "deny", "maybe"}
\* decision !== "allow-once" && decision !== "allow-always" && decision !== "deny"
Decisions == {"allow-once", "allow-always", "deny"}
Resolvers == {"alice", "bob"}

\* the request content and the requester connection of a request call
Submission(command, clientId) == [command |-> command, clientId |-> clientId]

\* DEFAULT_EXEC_APPROVAL_TIMEOUT_MS, scaled to the model's clock
DefaultTimeoutMs == 2
\* params.timeoutMs: a number, or absent
TimeoutMs(value) == [isNumber |-> TRUE, value |-> value]
TimeoutAbsent == [isNumber |-> FALSE, value |-> 0]

VARIABLES
  records,     \* the registry: tracked id -> ApprovalRecord
  calls,       \* the request and waitDecision calls, in arrival order
  resolves,    \* the exec.approval.resolve calls with their responses
  broadcasts,  \* context.broadcast events, in order
  forwards,    \* forwarder.handleRequested / handleResolved calls, in order
  issued,      \* ids randomUUID() has returned
  serials,     \* number of records registered so far (object identity)
  now,         \* Date.now()
  command,     \* the last chat message handleApproveCommand was given, if any
  requestedId  \* params.id as the client sent it, for the last request that carried one

vars == <<records, calls, resolves, broadcasts, forwards, issued, serials, now, command,
          requestedId>>

Tracked == DOMAIN records
IsPending(id) == id \in Tracked /\ records[id].status = "pending"
IsTerminal(id) == id \in Tracked /\ records[id].status # "pending"

\* ----------------------------------------------------------------- manager
\* fingerprintRequest(request, requester): a hash of the normalized request
\* content and the requester identity
fingerprintRequest(request, requester) == <<request, requester>>

\* getSnapshot(id) returns a record exactly for the tracked ids
getSnapshot(id) == id \in Tracked

\* getPendingByFingerprint(fp): the pending records sharing the fingerprint
\* (the caller is handed one of them)
getPendingByFingerprint(fp) ==
  {id \in Tracked : records[id].status = "pending" /\ records[id].fingerprint = fp}

\* awaitDecision(id) returns a promise exactly for the tracked ids
awaitDecision(id) == id \in Tracked

\* findIdsByPrefix(prefix): pending or within the grace period
findIdsByPrefix(prefix) == {id \in Tracked : StartsWith(id, prefix)}

\* findOpenPendingIdsByPrefix(prefix): status = pending only
findOpenPendingIdsByPrefix(prefix) ==
  {id \in Tracked : records[id].status = "pending" /\ StartsWith(id, prefix)}

\* create(request, timeoutMs, explicitId) followed by the handler's provenance
\* assignments
create(id, request, requester, timeoutMs, fp) ==
  [ id |-> id, request |-> request, requester |-> requester, fingerprint |-> fp,
    createdAtMs |-> now, expiresAtMs |-> now + timeoutMs, timeoutMs |-> timeoutMs,
    status |-> "pending", decision |-> Null, resolvedBy |-> Null,
    resolvedAtMs |-> NoTime, timer |-> "armed", serial |-> serials + 1 ]

\* register(record, timeoutMs, fingerprint): the registry with the record in it
register(record) ==
  [id \in Tracked \cup {record.id} |-> IF id = record.id THEN record ELSE records[id]]

\* a resolve that does not look at the status
resolveOkIgnoresStatus(id) == id \in Tracked

\* resolve(id, decision, resolvedBy) returns true exactly for a pending record
resolveOk(id) == id \in Tracked /\ records[id].status = "pending"

\* a resolve that leaves the expiry timer armed
resolvedKeepsTimer(id, decision, resolvedBy) ==
  IF id \in Tracked /\ records[id].status = "pending"
    THEN [records EXCEPT ![id] =
            [@ EXCEPT !.status = "resolved", !.decision = decision,
                      !.resolvedBy = resolvedBy, !.resolvedAtMs = now]]
    ELSE records

\* the registry after resolve(id, decision, resolvedBy): a pending record takes
\* the decision and its timer is cancelled; anything else is left as it is
resolved(id, decision, resolvedBy) ==
  IF resolveOk(id)
    THEN [records EXCEPT ![id] =
            [@ EXCEPT !.status = "resolved", !.decision = decision,
                      !.resolvedBy = resolvedBy, !.resolvedAtMs = now,
                      !.timer = "cancelled"]]
    ELSE records

\* the registry after the expiry timer of record id fired: a pending record
\* expires with no decision; a terminal one is left as it is
expired(id) ==
  IF records[id].status = "pending"
    THEN [records EXCEPT ![id] =
            [@ EXCEPT !.status = "expired", !.decision = Null, !.resolvedAtMs = now,
                      !.timer = "fired"]]
    ELSE [records EXCEPT ![id].timer = "fired"]

\* a terminal transition that wakes every waiting call, whatever it waits for
fulfilledEveryWaiter(id, value) ==
  [i \in 1..Len(calls) |->
     IF calls[i].pc = "await"
       THEN [calls[i] EXCEPT !.pc = "resume", !.value = value]
       ELSE calls[i]]

\* the decision promise of record id is fulfilled with value: every call
\* suspended on it is queued to resume with that value
fulfilled(id, value) ==
  [i \in 1..Len(calls) |->
     IF calls[i].pc = "await" /\ calls[i].target = id /\ calls[i].serial = records[id].serial
       THEN [calls[i] EXCEPT !.pc = "resume", !.value = value]
       ELSE calls[i]]

\* ---------------------------------------------------------------- handlers
\* what becomes of the best-effort side effects of one call: whether the
\* broadcast reaches the observers (dropIfSlow) and whether the forwarder's
\* promise is fulfilled
Deliveries == [broadcast : BOOLEAN, forward : BOOLEAN]
Delivered == [broadcast |-> TRUE, forward |-> TRUE]

\* an acknowledgement stamped when it is sent
AcceptedResponseRestamped(id, createdAtMs, expiresAtMs) ==
  [ ok |-> TRUE, status |-> "accepted", id |-> id, decision |-> Null,
    createdAtMs |-> now, expiresAtMs |-> now + DefaultTimeoutMs,
    error |-> "", matches |-> {} ]

\* an immediate response that lacks status: "accepted"
AcceptedResponseWithoutStatus(id, createdAtMs, expiresAtMs) ==
  [ ok |-> TRUE, status |-> "final", id |-> id, decision |-> Null,
    createdAtMs |-> createdAtMs, expiresAtMs |-> expiresAtMs, error |-> "", matches |-> {} ]

\* respond(true, {status: "accepted", id, createdAtMs, expiresAtMs})
AcceptedResponse(id, createdAtMs, expiresAtMs) ==
  [ ok |-> TRUE, status |-> "accepted", id |-> id, decision |-> Null,
    createdAtMs |-> createdAtMs, expiresAtMs |-> expiresAtMs, error |-> "", matches |-> {} ]

\* a final response that loses the decision
FinalResponseDropsDecision(id, decision, createdAtMs, expiresAtMs) ==
  [ ok |-> TRUE, status |-> "final", id |-> id, decision |-> Null,
    createdAtMs |-> createdAtMs, expiresAtMs |-> expiresAtMs, error |-> "", matches |-> {} ]

\* a final response that reports a timeout as an error
FinalResponseFailsOnTimeout(id, decision, createdAtMs, expiresAtMs) ==
  IF decision = Null
    THEN [ ok |-> FALSE, status |-> "error", id |-> NoId, decision |-> Null,
           createdAtMs |-> NoTime, expiresAtMs |-> NoTime,
           error |-> "approval expired or not found", matches |-> {} ]
    ELSE [ ok |-> TRUE, status |-> "final", id |-> id, decision |-> decision,
           createdAtMs |-> createdAtMs, expiresAtMs |-> expiresAtMs,
           error |-> "", matches |-> {} ]

\* a final response that reports a timeout as a denial
FinalResponseDeniesOnTimeout(id, decision, createdAtMs, expiresAtMs) ==
  [ ok |-> TRUE, status |-> "final", id |-> id,
    decision |-> IF decision = Null THEN "deny" ELSE decision,
    createdAtMs |-> createdAtMs, expiresAtMs |-> expiresAtMs, error |-> "", matches |-> {} ]

\* respond(true, {id, decision, createdAtMs, expiresAtMs})
FinalResponse(id, decision, createdAtMs, expiresAtMs) ==
  [ ok |-> TRUE, status |-> "final", id |-> id, decision |-> decision,
    createdAtMs |-> createdAtMs, expiresAtMs |-> expiresAtMs, error |-> "", matches |-> {} ]

\* respond(false, undefined, errorShape(INVALID_REQUEST, message, {details}))
ErrorResponse(message, matches) ==
  [ ok |-> FALSE, status |-> "error", id |-> NoId, decision |-> Null,
    createdAtMs |-> NoTime, expiresAtMs |-> NoTime, error |-> message, matches |-> matches ]

\* no fingerprint computed (waitDecision, or a request rejected before it)
NoFingerprint == <<>>

\* a call suspended at `await decisionPromise`, or finished
Call(method, wellFormed, twoPhase, typed, fp, pc, target, value, responses) ==
  [ method |-> method, wellFormed |-> wellFormed, twoPhase |-> twoPhase,
    typed |-> typed, fingerprint |-> fp, pc |-> pc, target |-> target,
    \* whether the promise was already fulfilled when the call subscribed to it
    late |-> target \in Tracked /\ records[target].status # "pending",
    serial |-> IF target \in Tracked THEN records[target].serial ELSE 0,
    value |-> value,
    createdAtMs |-> IF target \in Tracked THEN records[target].createdAtMs ELSE NoTime,
    expiresAtMs |-> IF target \in Tracked THEN records[target].expiresAtMs ELSE NoTime,
    responses |-> responses ]

\* the continuations of fulfilled promises run before any handler or timer
NoMicrotask == \A i \in 1..Len(calls) : calls[i].pc # "resume"

\* const timeoutMs = typeof p.timeoutMs === "number" ? p.timeoutMs : DEFAULT
TimeoutOf(timeoutIn) == IF timeoutIn.isNumber THEN timeoutIn.value ELSE DefaultTimeoutMs

\* a validation error that is answered but not returned from: the handler goes
\* on to register a record for the malformed params
RequestInvalidFallsThrough ==
  /\ \E id \in GeneratedIds \ issued :
       LET record == create(id, Null, Null, DefaultTimeoutMs, fingerprintRequest(Null, Null))
       IN /\ records' = register(record)
          /\ issued' = issued \cup {id}
          /\ serials' = serials + 1
          /\ calls' = Append(calls,
               [ method |-> "request", wellFormed |-> FALSE, twoPhase |-> FALSE,
                 typed |-> NoId,
                 fingerprint |-> record.fingerprint, pc |-> "await", target |-> id,
                 late |-> FALSE,
                 serial |-> record.serial, value |-> Null,
                 createdAtMs |-> record.createdAtMs, expiresAtMs |-> record.expiresAtMs,
                 responses |-> <<ErrorResponse("invalid exec.approval.request params", {})>> ])
  /\ UNCHANGED <<resolves, broadcasts, forwards, now>>

\* exec.approval.request whose params fail validateExecApprovalRequestParams
RequestInvalid ==
  /\ calls' = Append(calls,
       Call("request", FALSE, FALSE, NoId, NoFingerprint, "done", NoId, Null,
            <<ErrorResponse("invalid exec.approval.request params", {})>>))
  /\ UNCHANGED <<records, resolves, broadcasts, forwards, issued, serials, now>>

\* a duplicate id noticed only after the requested event went out
RequestDuplicateIdAfterBroadcast(explicitId, twoPhase) ==
  /\ explicitId # NoId
  /\ getSnapshot(explicitId)
  /\ calls' = Append(calls,
       Call("request", TRUE, twoPhase, explicitId, NoFingerprint, "done", NoId, Null,
            <<ErrorResponse("approval id already pending", {})>>))
  /\ broadcasts' = Append(broadcasts,
       [ event |-> "exec.approval.requested", id |-> explicitId,
         request |-> records[explicitId].request,
         createdAtMs |-> now, expiresAtMs |-> now,
         decision |-> Null, resolvedBy |-> Null, ts |-> NoTime, delivered |-> TRUE ])
  /\ UNCHANGED <<records, resolves, forwards, issued, serials, now>>

\* exec.approval.request with an explicit id that getSnapshot knows
RequestDuplicateId(explicitId, twoPhase) ==
  /\ explicitId # NoId
  /\ getSnapshot(explicitId)
  /\ calls' = Append(calls,
       Call("request", TRUE, twoPhase, explicitId, NoFingerprint, "done", NoId, Null,
            <<ErrorResponse("approval id already pending", {})>>))
  /\ UNCHANGED <<records, resolves, broadcasts, forwards, issued, serials, now>>

\* a reuse whose approval may have become terminal between the lookup and the
\* subscription, and refuses to subscribe to a terminal one
RequestDedupLosesPending(explicitId, sub, twoPhase) ==
  /\ explicitId = NoId
  /\ \E found \in {id \in Tracked :
                    records[id].fingerprint =
                      fingerprintRequest(sub.command, sub.clientId)} :
       LET accepted == IF twoPhase
                         THEN <<[ ok |-> TRUE, status |-> "accepted", id |-> found,
                                  decision |-> Null,
                                  createdAtMs |-> records[found].createdAtMs,
                                  expiresAtMs |-> records[found].expiresAtMs,
                                  error |-> "", matches |-> {} ]>>
                         ELSE <<>>
       IN calls' = Append(calls,
            IF records[found].status = "pending"
              THEN Call("request", TRUE, twoPhase, explicitId,
                        fingerprintRequest(sub.command, sub.clientId),
                        "await", found, Null, accepted)
              ELSE Call("request", TRUE, twoPhase, explicitId,
                        fingerprintRequest(sub.command, sub.clientId),
                        "done", NoId, Null,
                        Append(accepted,
                               [ ok |-> FALSE, status |-> "error", id |-> NoId,
                                 decision |-> Null, createdAtMs |-> NoTime,
                                 expiresAtMs |-> NoTime,
                                 error |-> "approval expired or not found",
                                 matches |-> {} ])))
  /\ UNCHANGED <<records, resolves, broadcasts, forwards, issued, serials, now>>

\* a reuse of any tracked approval of the same fingerprint, terminal or not
RequestDedupAnyTracked(explicitId, sub, twoPhase) ==
  /\ explicitId = NoId
  /\ \E found \in {id \in Tracked :
                    records[id].fingerprint =
                      fingerprintRequest(sub.command, sub.clientId)} :
       calls' = Append(calls,
            Call("request", TRUE, twoPhase, explicitId,
                 fingerprintRequest(sub.command, sub.clientId),
                 IF records[found].status = "pending" THEN "await" ELSE "resume",
                 found, records[found].decision,
                 IF twoPhase
                   THEN <<[ ok |-> TRUE, status |-> "accepted", id |-> found,
                            decision |-> Null,
                            createdAtMs |-> records[found].createdAtMs,
                            expiresAtMs |-> records[found].expiresAtMs,
                            error |-> "", matches |-> {} ]>>
                   ELSE <<>>))
  /\ UNCHANGED <<records, resolves, broadcasts, forwards, issued, serials, now>>

\* a reuse that re-arms the deadline of the pending approval
RequestDedupExtendsDeadline(explicitId, sub, twoPhase) ==
  /\ explicitId = NoId
  /\ \E pending \in getPendingByFingerprint(fingerprintRequest(sub.command, sub.clientId)) :
       /\ awaitDecision(pending)
       /\ records' = [records EXCEPT ![pending].expiresAtMs = now + DefaultTimeoutMs]
       /\ calls' = Append(calls,
            Call("request", TRUE, twoPhase, explicitId,
                 fingerprintRequest(sub.command, sub.clientId),
                 "await", pending, Null,
                 IF twoPhase
                   THEN <<[ ok |-> TRUE, status |-> "accepted", id |-> pending,
                            decision |-> Null,
                            createdAtMs |-> records[pending].createdAtMs,
                            expiresAtMs |-> now + DefaultTimeoutMs,
                            error |-> "", matches |-> {} ]>>
                   ELSE <<>>))
  /\ UNCHANGED <<resolves, broadcasts, forwards, issued, serials, now>>

\* exec.approval.request reusing the pending approval of the same fingerprint
RequestDedup(explicitId, sub, twoPhase) ==
  /\ explicitId = NoId
  /\ \E pending \in getPendingByFingerprint(fingerprintRequest(sub.command, sub.clientId)) :
       LET accepted == IF twoPhase
                         THEN <<AcceptedResponse(pending, records[pending].createdAtMs,
                                                 records[pending].expiresAtMs)>>
                         ELSE <<>>
       IN calls' = Append(calls,
            IF awaitDecision(pending)
              THEN Call("request", TRUE, twoPhase, explicitId,
                        fingerprintRequest(sub.command, sub.clientId),
                        "await", pending, Null, accepted)
              ELSE Call("request", TRUE, twoPhase, explicitId,
                        fingerprintRequest(sub.command, sub.clientId),
                        "done", NoId, Null,
                        Append(accepted,
                               ErrorResponse("approval expired or not found", {}))))
  /\ UNCHANGED <<records, resolves, broadcasts, forwards, issued, serials, now>>

\* the "exec.approval.requested" event of a record
RequestedEvent(record) ==
  [ event |-> "exec.approval.requested", id |-> record.id, request |-> record.request,
    createdAtMs |-> record.createdAtMs, expiresAtMs |-> record.expiresAtMs,
    decision |-> Null, resolvedBy |-> Null, ts |-> NoTime, delivered |-> TRUE ]

\* a request that registers its explicit id without looking it up
RequestCreateSkipsIdLookup(explicitId, sub, twoPhase, timeoutIn, delivery) ==
  /\ explicitId = NoId =>
       getPendingByFingerprint(fingerprintRequest(sub.command, sub.clientId)) = {}
  /\ \E id \in (IF explicitId # NoId THEN {explicitId} ELSE GeneratedIds \ issued) :
       LET record == create(id, sub.command, sub.clientId, TimeoutOf(timeoutIn),
                            fingerprintRequest(sub.command, sub.clientId))
       IN /\ records' = register(record)
          /\ issued' = issued \cup {id}
          /\ serials' = serials + 1
          /\ broadcasts' = Append(broadcasts,
               [RequestedEvent(record) EXCEPT !.delivered = delivery.broadcast])
          /\ forwards' = Append(forwards,
               [RequestedEvent(record) EXCEPT !.delivered = delivery.forward])
          /\ calls' = Append(calls,
               [ method |-> "request", wellFormed |-> TRUE, twoPhase |-> twoPhase,
                 typed |-> explicitId,
                 fingerprint |-> record.fingerprint, pc |-> "await", target |-> id,
                 late |-> FALSE,
                 serial |-> record.serial, value |-> Null,
                 createdAtMs |-> record.createdAtMs, expiresAtMs |-> record.expiresAtMs,
                 responses |-> IF twoPhase
                                 THEN <<AcceptedResponse(id, record.createdAtMs,
                                                         record.expiresAtMs)>>
                                 ELSE <<>> ])
  /\ UNCHANGED <<resolves, now>>

\* a request that sends "accepted" while the record is not yet in the registry
RequestCreateAcceptsUnregistered(explicitId, sub, twoPhase, timeoutIn, delivery) ==
  /\ explicitId # NoId => ~getSnapshot(explicitId)
  /\ explicitId = NoId =>
       getPendingByFingerprint(fingerprintRequest(sub.command, sub.clientId)) = {}
  /\ \E id \in (IF explicitId # NoId THEN {explicitId} ELSE GeneratedIds \ issued) :
       LET record == create(id, sub.command, sub.clientId, TimeoutOf(timeoutIn),
                            fingerprintRequest(sub.command, sub.clientId))
       IN /\ issued' = issued \cup {id}
          /\ serials' = serials + 1
          /\ calls' = Append(calls,
               [ method |-> "request", wellFormed |-> TRUE, twoPhase |-> twoPhase,
                 typed |-> explicitId,
                 fingerprint |-> record.fingerprint, pc |-> "await", target |-> id,
                 late |-> FALSE,
                 serial |-> record.serial, value |-> Null,
                 createdAtMs |-> record.createdAtMs, expiresAtMs |-> record.expiresAtMs,
                 responses |-> IF twoPhase
                                 THEN <<AcceptedResponse(id, record.createdAtMs,
                                                         record.expiresAtMs)>>
                                 ELSE <<>> ])
  /\ UNCHANGED <<records, broadcasts, forwards, resolves, now>>

\* a creation whose acknowledgement stands in for the announcement
RequestCreateAcknowledgesInstead(explicitId, sub, twoPhase, timeoutIn, delivery) ==
  /\ explicitId # NoId => ~getSnapshot(explicitId)
  /\ explicitId = NoId =>
       getPendingByFingerprint(fingerprintRequest(sub.command, sub.clientId)) = {}
  /\ \E id \in (IF explicitId # NoId THEN {explicitId} ELSE GeneratedIds \ issued) :
       LET record == create(id, sub.command, sub.clientId, TimeoutOf(timeoutIn),
                            fingerprintRequest(sub.command, sub.clientId))
       IN /\ records' = register(record)
          /\ issued' = issued \cup {id}
          /\ serials' = serials + 1
          /\ broadcasts' =
               IF twoPhase
                 THEN broadcasts
                 ELSE Append(broadcasts,
                        [RequestedEvent(record) EXCEPT !.delivered = delivery.broadcast])
          /\ forwards' = Append(forwards,
               [RequestedEvent(record) EXCEPT !.delivered = delivery.forward])
          /\ calls' = Append(calls,
               [ method |-> "request", wellFormed |-> TRUE, twoPhase |-> twoPhase,
                 typed |-> explicitId,
                 fingerprint |-> record.fingerprint, pc |-> "await", target |-> id,
                 late |-> FALSE,
                 serial |-> record.serial, value |-> Null,
                 createdAtMs |-> record.createdAtMs, expiresAtMs |-> record.expiresAtMs,
                 responses |-> IF twoPhase
                                 THEN <<AcceptedResponse(id, record.createdAtMs,
                                                         record.expiresAtMs)>>
                                 ELSE <<>> ])
  /\ UNCHANGED <<resolves, now>>

\* exec.approval.request creating and registering a new record
RequestCreate(explicitId, sub, twoPhase, timeoutIn, delivery) ==
  /\ explicitId # NoId => ~getSnapshot(explicitId)
  /\ explicitId = NoId =>
       getPendingByFingerprint(fingerprintRequest(sub.command, sub.clientId)) = {}
  /\ \E id \in (IF explicitId # NoId THEN {explicitId} ELSE GeneratedIds \ issued) :
       LET record == create(id, sub.command, sub.clientId, TimeoutOf(timeoutIn),
                            fingerprintRequest(sub.command, sub.clientId))
       IN /\ records' = register(record)
          /\ issued' = issued \cup {id}
          /\ serials' = serials + 1
          /\ broadcasts' = Append(broadcasts,
               [RequestedEvent(record) EXCEPT !.delivered = delivery.broadcast])
          /\ forwards' = Append(forwards,
               [RequestedEvent(record) EXCEPT !.delivered = delivery.forward])
          /\ calls' = Append(calls,
               [ method |-> "request", wellFormed |-> TRUE, twoPhase |-> twoPhase,
                 typed |-> explicitId,
                 fingerprint |-> record.fingerprint, pc |-> "await", target |-> id,
                 late |-> FALSE,
                 serial |-> record.serial, value |-> Null,
                 createdAtMs |-> record.createdAtMs, expiresAtMs |-> record.expiresAtMs,
                 responses |-> IF twoPhase
                                 THEN <<AcceptedResponse(id, record.createdAtMs,
                                                         record.expiresAtMs)>>
                                 ELSE <<>> ])
  /\ UNCHANGED <<resolves, now>>

\* a failed registration reported after the announcement and the acknowledgement
RequestRegisterFailsLate(explicitId, sub, twoPhase) ==
  /\ NoMicrotask
  /\ explicitId # NoId => ~getSnapshot(explicitId)
  /\ explicitId = NoId =>
       getPendingByFingerprint(fingerprintRequest(sub.command, sub.clientId)) = {}
  /\ \E id \in (IF explicitId # NoId THEN {explicitId} ELSE GeneratedIds \ issued) :
       LET record == create(id, sub.command, sub.clientId, DefaultTimeoutMs,
                            fingerprintRequest(sub.command, sub.clientId))
       IN /\ issued' = issued \cup {id}
          /\ broadcasts' = Append(broadcasts, RequestedEvent(record))
          /\ forwards' = Append(forwards, RequestedEvent(record))
          /\ calls' = Append(calls,
               Call("request", TRUE, twoPhase, explicitId,
                    fingerprintRequest(sub.command, sub.clientId), "done", NoId, Null,
                    IF twoPhase
                      THEN <<AcceptedResponse(id, record.createdAtMs, record.expiresAtMs),
                             ErrorResponse("registration failed", {})>>
                      ELSE <<ErrorResponse("registration failed", {})>>))
  /\ UNCHANGED <<records, resolves, serials, now>>

\* exec.approval.request when manager.register throws: the catch branch
RequestRegisterFails(explicitId, sub, twoPhase) ==
  /\ NoMicrotask
  /\ explicitId # NoId => ~getSnapshot(explicitId)
  /\ explicitId = NoId =>
       getPendingByFingerprint(fingerprintRequest(sub.command, sub.clientId)) = {}
  /\ \E id \in (IF explicitId # NoId THEN {explicitId} ELSE GeneratedIds \ issued) :
       /\ issued' = issued \cup {id}
       /\ calls' = Append(calls,
            Call("request", TRUE, twoPhase, explicitId,
                 fingerprintRequest(sub.command, sub.clientId), "done", NoId, Null,
                 <<ErrorResponse("registration failed", {})>>))
  /\ UNCHANGED <<records, resolves, broadcasts, forwards, serials, now>>

\* exec.approval.request, up to its await
Request(wellFormed, explicitId, sub, twoPhase, timeoutIn, delivery) ==
  /\ NoMicrotask
  /\ IF ~wellFormed
       THEN RequestInvalid
       ELSE \/ RequestDuplicateId(explicitId, twoPhase)
            \/ RequestDedup(explicitId, sub, twoPhase)
            \/ RequestCreate(explicitId, sub, twoPhase, timeoutIn, delivery)

\* a resolvedId closure that matches the prefix against pending records only
WaitResolvedIdPendingOnly(rawId) ==
  IF awaitDecision(rawId) THEN rawId
  ELSE IF ~IsSlug(rawId) THEN rawId
  ELSE LET matches == findOpenPendingIdsByPrefix(rawId)
       IN IF Cardinality(matches) = 1 THEN CHOOSE id \in matches : TRUE ELSE rawId

\* the id exec.approval.waitDecision awaits for the typed id (the resolvedId closure)
WaitResolvedId(rawId) ==
  IF awaitDecision(rawId) THEN rawId
  ELSE IF ~IsSlug(rawId) THEN rawId
  ELSE LET matches == findIdsByPrefix(rawId)
       IN IF Cardinality(matches) = 1 THEN CHOOSE id \in matches : TRUE ELSE rawId

\* a waitDecision that refuses a record once it is terminal
WaitDecisionPendingOnly(rawId) ==
  /\ NoMicrotask
  /\ LET resolvedId == WaitResolvedId(rawId)
         matches == findIdsByPrefix(rawId)
     IN calls' = Append(calls,
          IF rawId = NoId
            THEN Call("waitDecision", TRUE, FALSE, rawId, NoFingerprint, "done", NoId, Null,
                      <<ErrorResponse("id is required", {})>>)
          ELSE IF ~awaitDecision(resolvedId) \/ records[resolvedId].status # "pending"
            THEN Call("waitDecision", TRUE, FALSE, rawId, NoFingerprint, "done", NoId, Null,
                      <<IF IsSlug(rawId) /\ Cardinality(matches) > 1
                          THEN ErrorResponse("ambiguous approval id prefix", matches)
                          ELSE ErrorResponse("approval expired or not found", {})>>)
            ELSE Call("waitDecision", TRUE, FALSE, rawId, NoFingerprint, "await",
                      resolvedId, Null, <<>>))
  /\ UNCHANGED <<records, resolves, broadcasts, forwards, issued, serials, now>>

\* exec.approval.waitDecision, up to its await
WaitDecision(rawId) ==
  /\ NoMicrotask
  /\ LET resolvedId == WaitResolvedId(rawId)
         matches == findIdsByPrefix(rawId)
     IN calls' = Append(calls,
          IF rawId = NoId
            THEN Call("waitDecision", TRUE, FALSE, rawId, NoFingerprint, "done", NoId, Null,
                      <<ErrorResponse("id is required", {})>>)
          ELSE IF ~awaitDecision(resolvedId)
            THEN Call("waitDecision", TRUE, FALSE, rawId, NoFingerprint, "done", NoId, Null,
                      <<IF IsSlug(rawId) /\ Cardinality(matches) > 1
                          THEN ErrorResponse("ambiguous approval id prefix", matches)
                          ELSE ErrorResponse("approval expired or not found", {})>>)
            ELSE IF records[resolvedId].status = "pending"
              THEN Call("waitDecision", TRUE, FALSE, rawId, NoFingerprint, "await",
                        resolvedId, Null, <<>>)
              ELSE Call("waitDecision", TRUE, FALSE, rawId, NoFingerprint, "resume", resolvedId,
                        records[resolvedId].decision, <<>>))
  /\ UNCHANGED <<records, resolves, broadcasts, forwards, issued, serials, now>>

\* a resolve that tries a short id as a prefix before trying it as an id
ResolveTargetPrefixFirst(rawId) ==
  IF IsSlug(rawId) /\ findOpenPendingIdsByPrefix(rawId) # {}
    THEN LET matches == findOpenPendingIdsByPrefix(rawId)
         IN IF Cardinality(matches) = 1
              THEN [outcome |-> "ok", id |-> CHOOSE m \in matches : TRUE,
                    matches |-> matches]
              ELSE [outcome |-> "ambiguous", id |-> rawId, matches |-> matches]
  ELSE IF resolveOk(rawId)
    THEN [outcome |-> "ok", id |-> rawId, matches |-> {}]
  ELSE [outcome |-> "unknown", id |-> rawId, matches |-> {}]

\* a resolve that takes the first of several prefix matches
ResolveTargetFirstMatch(rawId) ==
  IF resolveOk(rawId)
    THEN [outcome |-> "ok", id |-> rawId, matches |-> {}]
  ELSE IF IsSlug(rawId)
    THEN LET matches == findOpenPendingIdsByPrefix(rawId)
         IN IF Cardinality(matches) >= 1
              THEN LET id == CHOOSE m \in matches : TRUE
                   IN [outcome |-> IF resolveOk(id) THEN "ok" ELSE "unknown",
                       id |-> id, matches |-> matches]
            ELSE [outcome |-> "unknown", id |-> rawId, matches |-> matches]
  ELSE [outcome |-> "unknown", id |-> rawId, matches |-> {}]

\* a resolve that matches the prefix against every tracked id
ResolveTargetAnyTracked(rawId) ==
  IF resolveOk(rawId)
    THEN [outcome |-> "ok", id |-> rawId, matches |-> {}]
  ELSE IF IsSlug(rawId)
    THEN LET matches == findIdsByPrefix(rawId)
         IN IF Cardinality(matches) = 1
              THEN LET id == CHOOSE m \in matches : TRUE
                   IN [outcome |-> IF resolveOk(id) THEN "ok" ELSE "unknown",
                       id |-> id, matches |-> matches]
            ELSE IF Cardinality(matches) > 1
              THEN [outcome |-> "ambiguous", id |-> rawId, matches |-> matches]
            ELSE [outcome |-> "unknown", id |-> rawId, matches |-> matches]
  ELSE [outcome |-> "unknown", id |-> rawId, matches |-> {}]

\* a resolve for which terminal records still tracked make a prefix ambiguous
ResolveTargetGraceAmbiguous(rawId) ==
  IF resolveOk(rawId)
    THEN [outcome |-> "ok", id |-> rawId, matches |-> {}]
  ELSE IF IsSlug(rawId)
    THEN LET matches == findOpenPendingIdsByPrefix(rawId)
             known == findIdsByPrefix(rawId)
         IN IF Cardinality(known) > 1
              THEN [outcome |-> "ambiguous", id |-> rawId, matches |-> known]
            ELSE IF Cardinality(matches) = 1
              THEN LET id == CHOOSE m \in matches : TRUE
                   IN [outcome |-> IF resolveOk(id) THEN "ok" ELSE "unknown",
                       id |-> id, matches |-> matches]
            ELSE [outcome |-> "unknown", id |-> rawId, matches |-> matches]
  ELSE [outcome |-> "unknown", id |-> rawId, matches |-> {}]

\* what exec.approval.resolve does with the typed id: the exact id first, then,
\* for a short id, the only pending id with that prefix
ResolveTarget(rawId) ==
  IF resolveOk(rawId)
    THEN [outcome |-> "ok", id |-> rawId, matches |-> {}]
  ELSE IF IsSlug(rawId)
    THEN LET matches == findOpenPendingIdsByPrefix(rawId)
         IN IF Cardinality(matches) = 1
              THEN LET id == CHOOSE m \in matches : TRUE
                   IN [outcome |-> IF resolveOk(id) THEN "ok" ELSE "unknown",
                       id |-> id, matches |-> matches]
            ELSE IF Cardinality(matches) > 1
              THEN [outcome |-> "ambiguous", id |-> rawId, matches |-> matches]
            ELSE [outcome |-> "unknown", id |-> rawId, matches |-> matches]
  ELSE [outcome |-> "unknown", id |-> rawId, matches |-> {}]

\* a resolved event that carries the short form of the id
ResolvedEventShortId(id, decision, resolvedBy) ==
  [ event |-> "exec.approval.resolved",
    id |-> IF Len(id) > SlugLen THEN SubSeq(id, 1, SlugLen) ELSE id,
    request |-> Null, createdAtMs |-> NoTime, expiresAtMs |-> NoTime,
    decision |-> decision, resolvedBy |-> resolvedBy, ts |-> now, delivered |-> TRUE ]

\* the "exec.approval.resolved" event
ResolvedEvent(id, decision, resolvedBy) ==
  [ event |-> "exec.approval.resolved", id |-> id, request |-> Null,
    createdAtMs |-> NoTime, expiresAtMs |-> NoTime,
    decision |-> decision, resolvedBy |-> resolvedBy, ts |-> now, delivered |-> TRUE ]

\* respond(true, {ok: true})
OkResponse ==
  [ ok |-> TRUE, status |-> "ok", id |-> NoId, decision |-> Null,
    createdAtMs |-> NoTime, expiresAtMs |-> NoTime, error |-> "", matches |-> {} ]

\* a forwarder promise that is awaited, so that its rejection fails the call
respondAfterForwardAwaited(delivery, response) ==
  IF delivery.forward THEN response ELSE ErrorResponse("forward resolve failed", {})

\* void forwarder.handleResolved(...).catch(log): the handler responds whatever
\* becomes of the forwarder's promise
respondAfterForward(delivery, response) == response

\* one exec.approval.resolve call as the model records it
ResolveCall(rawId, decision, resolvedBy, resolvedId, response) ==
  [ typed |-> rawId, decision |-> decision, resolvedBy |-> resolvedBy,
    resolvedId |-> resolvedId, response |-> response, ts |-> now,
    \* the terminal records still tracked whose ids start with the typed id
    graceMatches |-> {id \in findIdsByPrefix(rawId) : records[id].status # "pending"},
    \* the record objects involved: the one whose id is the typed id, the one resolved
    typedSerial |-> IF rawId \in Tracked THEN records[rawId].serial ELSE 0,
    serial |-> IF resolvedId \in Tracked THEN records[resolvedId].serial ELSE 0 ]

\* a resolve that announces the decision before knowing that it was applied
ResolveAnnouncesFailure(wellFormed, rawId, decision, resolvedBy, delivery) ==
  /\ NoMicrotask
  /\ LET t == ResolveTarget(rawId)
     IN \/ /\ ~wellFormed
           /\ resolves' = Append(resolves,
                ResolveCall(rawId, decision, resolvedBy, NoId,
                            ErrorResponse("invalid exec.approval.resolve params", {})))
           /\ UNCHANGED <<records, calls, broadcasts, forwards>>
        \/ /\ wellFormed
           /\ decision \notin Decisions
           /\ resolves' = Append(resolves,
                ResolveCall(rawId, decision, resolvedBy, NoId,
                            ErrorResponse("invalid decision", {})))
           /\ UNCHANGED <<records, calls, broadcasts, forwards>>
        \/ /\ wellFormed
           /\ decision \in Decisions
           /\ t.outcome = "ok"
           /\ records' = resolved(t.id, decision, resolvedBy)
           /\ calls' = fulfilled(t.id, decision)
           /\ broadcasts' = Append(broadcasts,
                [ResolvedEvent(t.id, decision, resolvedBy)
                   EXCEPT !.delivered = delivery.broadcast])
           /\ forwards' = Append(forwards,
                [ResolvedEvent(t.id, decision, resolvedBy)
                   EXCEPT !.delivered = delivery.forward])
           /\ resolves' = Append(resolves,
                ResolveCall(rawId, decision, resolvedBy, t.id,
                            respondAfterForward(delivery, OkResponse)))
        \/ /\ wellFormed
           /\ decision \in Decisions
           /\ t.outcome = "ambiguous"
           /\ resolves' = Append(resolves,
                ResolveCall(rawId, decision, resolvedBy, NoId,
                            ErrorResponse("ambiguous approval id prefix", t.matches)))
           /\ UNCHANGED <<records, calls, broadcasts, forwards>>
        \/ /\ wellFormed
           /\ decision \in Decisions
           /\ t.outcome = "unknown"
           /\ resolves' = Append(resolves,
                ResolveCall(rawId, decision, resolvedBy, NoId,
                            ErrorResponse("unknown approval id", {})))
           /\ broadcasts' = Append(broadcasts, ResolvedEvent(rawId, decision, resolvedBy))
           /\ forwards' = Append(forwards, ResolvedEvent(rawId, decision, resolvedBy))
           /\ UNCHANGED <<records, calls>>
  /\ UNCHANGED <<issued, serials, now>>

\* exec.approval.resolve (the whole handler: it never awaits)
Resolve(wellFormed, rawId, decision, resolvedBy, delivery) ==
  /\ NoMicrotask
  /\ LET t == ResolveTarget(rawId)
     IN \/ /\ ~wellFormed
           /\ resolves' = Append(resolves,
                ResolveCall(rawId, decision, resolvedBy, NoId,
                            ErrorResponse("invalid exec.approval.resolve params", {})))
           /\ UNCHANGED <<records, calls, broadcasts, forwards>>
        \/ /\ wellFormed
           /\ decision \notin Decisions
           /\ resolves' = Append(resolves,
                ResolveCall(rawId, decision, resolvedBy, NoId,
                            ErrorResponse("invalid decision", {})))
           /\ UNCHANGED <<records, calls, broadcasts, forwards>>
        \/ /\ wellFormed
           /\ decision \in Decisions
           /\ t.outcome = "ok"
           /\ records' = resolved(t.id, decision, resolvedBy)
           /\ calls' = fulfilled(t.id, decision)
           /\ broadcasts' = Append(broadcasts,
                [ResolvedEvent(t.id, decision, resolvedBy)
                   EXCEPT !.delivered = delivery.broadcast])
           /\ forwards' = Append(forwards,
                [ResolvedEvent(t.id, decision, resolvedBy)
                   EXCEPT !.delivered = delivery.forward])
           /\ resolves' = Append(resolves,
                ResolveCall(rawId, decision, resolvedBy, t.id,
                            respondAfterForward(delivery, OkResponse)))
        \/ /\ wellFormed
           /\ decision \in Decisions
           /\ t.outcome = "ambiguous"
           /\ resolves' = Append(resolves,
                ResolveCall(rawId, decision, resolvedBy, NoId,
                            ErrorResponse("ambiguous approval id prefix", t.matches)))
           /\ UNCHANGED <<records, calls, broadcasts, forwards>>
        \/ /\ wellFormed
           /\ decision \in Decisions
           /\ t.outcome = "unknown"
           /\ resolves' = Append(resolves,
                ResolveCall(rawId, decision, resolvedBy, NoId,
                            ErrorResponse("unknown approval id", {})))
           /\ UNCHANGED <<records, calls, broadcasts, forwards>>
  /\ UNCHANGED <<issued, serials, now>>

\* the expiry timer of a record fires
TimerFire(id) ==
  /\ NoMicrotask
  /\ id \in Tracked
  /\ records[id].timer = "armed"
  /\ now >= records[id].expiresAtMs
  /\ records' = expired(id)
  /\ calls' = IF records[id].status = "pending" THEN fulfilled(id, Null) ELSE calls
  /\ UNCHANGED <<resolves, broadcasts, forwards, issued, serials, now>>

\* a continuation that responds twice
DeliverTwice ==
  /\ ~NoMicrotask
  /\ LET i == CHOOSE k \in 1..Len(calls) :
                /\ calls[k].pc = "resume"
                /\ \A j \in 1..(k - 1) : calls[j].pc # "resume"
         c == calls[i]
         final == FinalResponse(c.target, c.value, c.createdAtMs, c.expiresAtMs)
     IN calls' = [calls EXCEPT ![i] =
          [c EXCEPT !.pc = "done", !.responses = c.responses \o <<final, final>>]]
  /\ UNCHANGED <<records, resolves, broadcasts, forwards, issued, serials, now>>

\* a continuation that returns without responding to a request caller
DeliverDropsRequestFinal ==
  /\ ~NoMicrotask
  /\ LET i == CHOOSE k \in 1..Len(calls) :
                /\ calls[k].pc = "resume"
                /\ \A j \in 1..(k - 1) : calls[j].pc # "resume"
         c == calls[i]
     IN calls' = [calls EXCEPT ![i] =
          [c EXCEPT !.pc = "done",
                    !.responses =
                       IF c.method = "request"
                         THEN c.responses
                         ELSE Append(c.responses,
                                [ ok |-> TRUE, status |-> "final", id |-> c.target,
                                  decision |-> c.value, createdAtMs |-> c.createdAtMs,
                                  expiresAtMs |-> c.expiresAtMs, error |-> "",
                                  matches |-> {} ])]]
  /\ UNCHANGED <<records, resolves, broadcasts, forwards, issued, serials, now>>

\* the continuation of the oldest resumed call: the final response
Deliver ==
  /\ ~NoMicrotask
  /\ LET i == CHOOSE k \in 1..Len(calls) :
                /\ calls[k].pc = "resume"
                /\ \A j \in 1..(k - 1) : calls[j].pc # "resume"
         c == calls[i]
     IN calls' = [calls EXCEPT ![i] =
          [c EXCEPT !.pc = "done",
                    !.responses = Append(c.responses,
                       FinalResponse(c.target, c.value, c.createdAtMs, c.expiresAtMs))]]
  /\ UNCHANGED <<records, resolves, broadcasts, forwards, issued, serials, now>>

\* a terminal record is removed once its grace period has elapsed
Collect(id) ==
  /\ NoMicrotask
  /\ id \in Tracked
  /\ records[id].status # "pending"
  /\ records' = [k \in Tracked \ {id} |-> records[k]]
  /\ UNCHANGED <<calls, resolves, broadcasts, forwards, issued, serials, now>>

\* time passes
Tick ==
  /\ NoMicrotask
  /\ now < MaxTime
  /\ now' = now + 1
  /\ UNCHANGED <<records, calls, resolves, broadcasts, forwards, issued, serials>>

\* time passes beyond the horizon while an armed timer has its deadline ahead
TickToDeadline ==
  /\ NoMicrotask
  /\ now >= MaxTime
  /\ \E id \in Tracked : records[id].timer = "armed" /\ now < records[id].expiresAtMs
  /\ now' = now + 1
  /\ UNCHANGED <<records, calls, resolves, broadcasts, forwards, issued, serials>>

\* no request has carried an id parameter yet
NotSent == [sent |-> FALSE]
\* no chat message handled yet
NoCommand == [handled |-> FALSE]

Init ==
  /\ records = [id \in {} |-> Null]
  /\ calls = <<>>
  /\ resolves = <<>>
  /\ broadcasts = <<>>
  /\ forwards = <<>>
  /\ issued = {}
  /\ serials = 0
  /\ now = 0
  /\ command = NoCommand
  /\ requestedId = NotSent

\* the next-state relation over the inputs in: the ids, submissions and timeouts
\* of requests, the ids typed into waitDecision and resolve, the decisions and
\* the resolvers
NextOver(in) ==
  \/ /\ Len(calls) + Len(resolves) < in.maxCalls
     /\ \E wellFormed \in in.wellFormed, explicitId \in in.explicitIds,
           sub \in in.submissions, twoPhase \in in.twoPhases, timeoutIn \in in.timeouts,
           delivery \in in.deliveries :
          Request(wellFormed, explicitId, sub, twoPhase, timeoutIn, delivery)
     /\ UNCHANGED <<command, requestedId>>
  \/ /\ Len(calls) + Len(resolves) < in.maxCalls
     /\ \E rawId \in in.typedIds : WaitDecision(rawId)
     /\ UNCHANGED <<command, requestedId>>
  \/ /\ Len(calls) + Len(resolves) < in.maxCalls
     /\ \E wellFormed \in in.wellFormed, rawId \in in.typedIds,
           decision \in in.decisions, resolvedBy \in in.resolvers,
           delivery \in in.deliveries :
          Resolve(wellFormed, rawId, decision, resolvedBy, delivery)
     /\ UNCHANGED <<command, requestedId>>
  \/ (\E id \in Tracked : TimerFire(id)) /\ UNCHANGED <<command, requestedId>>
  \/ Deliver /\ UNCHANGED <<command, requestedId>>
  \/ (\E id \in Tracked : Collect(id)) /\ UNCHANGED <<command, requestedId>>
  \/ Tick /\ UNCHANGED <<command, requestedId>>

\* the life of a record: one request content, requests with and without an
\* explicit id, exact and short typed ids
Inputs ==
  [ maxCalls |-> MaxCalls,
    wellFormed |-> {TRUE},
    explicitIds |-> {NoId, SlugId},
    submissions |-> {Submission("rm", "k1")},
    twoPhases |-> {FALSE},
    timeouts |-> {TimeoutMs(1)},
    typedIds |-> {IdA, SlugId},
    decisions |-> {"allow-once", "deny"},
    resolvers |-> {"alice"},
    deliveries |-> {Delivered} ]

Next == NextOver(Inputs)

Spec == Init /\ [][Next]_vars

\* resolving by prefix: short ids typed in either case, and a shorter prefix
PrefixInputs ==
  [ maxCalls |-> MaxCalls,
    wellFormed |-> {TRUE},
    explicitIds |-> {NoId, SlugId},
    submissions |-> {Submission("rm", "k1")},
    twoPhases |-> {FALSE},
    timeouts |-> {TimeoutMs(1)},
    typedIds |-> {SlugId, SlugIdUpper, ShortId},
    decisions |-> {"deny"},
    resolvers |-> {"alice"},
    deliveries |-> {Delivered} ]

NextPrefix == NextOver(PrefixInputs)

SpecPrefix == Init /\ [][NextPrefix]_vars

\* rejected calls: malformed params, an invalid decision, an empty id
ErrorInputs ==
  [ maxCalls |-> MaxCalls,
    wellFormed |-> BOOLEAN,
    explicitIds |-> {NoId},
    submissions |-> {Submission("rm", "k1")},
    twoPhases |-> {FALSE},
    timeouts |-> {TimeoutMs(1)},
    typedIds |-> {IdA, NoId},
    decisions |-> {"deny", "maybe"},
    resolvers |-> {"alice"},
    deliveries |-> {Delivered} ]

NextErrors == NextOver(ErrorInputs)

SpecErrors == Init /\ [][NextErrors]_vars

\* waiting on exact, short and empty ids
WaitInputs ==
  [ maxCalls |-> MaxCalls,
    wellFormed |-> {TRUE},
    explicitIds |-> {NoId},
    submissions |-> {Submission("rm", "k1")},
    twoPhases |-> {FALSE},
    timeouts |-> {TimeoutMs(1)},
    typedIds |-> {IdA, SlugId, NoId},
    decisions |-> {"deny"},
    resolvers |-> {"alice"},
    deliveries |-> {Delivered} ]

NextWait == NextOver(WaitInputs)

SpecWait == Init /\ [][NextWait]_vars

\* resubmissions with and without timeoutMs, two-phase and single-phase
DedupInputs ==
  [ maxCalls |-> MaxCalls,
    wellFormed |-> {TRUE},
    explicitIds |-> {NoId},
    submissions |-> {Submission("rm", "k1")},
    twoPhases |-> BOOLEAN,
    timeouts |-> {TimeoutMs(1), TimeoutAbsent},
    typedIds |-> {IdA},
    decisions |-> {"allow-once"},
    resolvers |-> {"alice"},
    deliveries |-> {Delivered} ]

NextDedup == NextOver(DedupInputs)

SpecDedup == Init /\ [][NextDedup]_vars

\* requests left to the clock: the event loop runs every continuation, time
\* passes up to every deadline and every due timer fires
LiveInputs ==
  [ maxCalls |-> MaxCalls,
    wellFormed |-> {TRUE},
    explicitIds |-> {NoId},
    submissions |-> {Submission("rm", "k1")},
    twoPhases |-> {FALSE},
    timeouts |-> {TimeoutMs(1)},
    typedIds |-> {IdA},
    decisions |-> {"deny"},
    resolvers |-> {"alice"},
    deliveries |-> {Delivered} ]

NextLive == NextOver(LiveInputs) \/ (TickToDeadline /\ UNCHANGED <<command, requestedId>>)

SpecLive ==
  /\ Init
  /\ [][NextLive]_vars
  /\ WF_vars(Deliver /\ UNCHANGED <<command, requestedId>>)
  /\ WF_vars(Tick /\ UNCHANGED <<command, requestedId>>)
  /\ WF_vars(TickToDeadline /\ UNCHANGED <<command, requestedId>>)
  /\ \A id \in GeneratedIds : WF_vars(TimerFire(id) /\ UNCHANGED <<command, requestedId>>)

\* typed ids that begin a tracked id without being 8 hexadecimal characters
ShapeInputs ==
  [ maxCalls |-> MaxCalls,
    wellFormed |-> {TRUE},
    explicitIds |-> {NoId, NonHexId},
    submissions |-> {Submission("rm", "k1")},
    twoPhases |-> {FALSE},
    timeouts |-> {TimeoutMs(1)},
    typedIds |-> {ShortId, LongPrefix, NonHexPrefix, SlugId},
    decisions |-> {"deny"},
    resolvers |-> {"alice"},
    deliveries |-> {Delivered} ]

NextShape == NextOver(ShapeInputs)

SpecShape == Init /\ [][NextShape]_vars

\* requests whose registration may fail
RegisterInputs ==
  [ maxCalls |-> MaxCalls,
    wellFormed |-> {TRUE},
    explicitIds |-> {NoId},
    submissions |-> {Submission("rm", "k1")},
    twoPhases |-> BOOLEAN,
    timeouts |-> {TimeoutMs(1)},
    typedIds |-> {IdA},
    decisions |-> {"deny"},
    resolvers |-> {"alice"},
    deliveries |-> {Delivered} ]

NextRegister ==
  \/ NextOver(RegisterInputs)
  \/ /\ Len(calls) + Len(resolves) < RegisterInputs.maxCalls
     /\ \E explicitId \in RegisterInputs.explicitIds, sub \in RegisterInputs.submissions,
           twoPhase \in RegisterInputs.twoPhases :
          RequestRegisterFails(explicitId, sub, twoPhase)
     /\ UNCHANGED <<command, requestedId>>

SpecRegister == Init /\ [][NextRegister]_vars

\* two-phase and single-phase requests, with and without an explicit id
TwoPhaseInputs ==
  [ maxCalls |-> MaxCalls,
    wellFormed |-> {TRUE},
    explicitIds |-> {NoId, IdA},
    submissions |-> {Submission("rm", "k1")},
    twoPhases |-> BOOLEAN,
    timeouts |-> {TimeoutMs(1)},
    typedIds |-> {IdA},
    decisions |-> {"allow-once"},
    resolvers |-> {"alice"},
    deliveries |-> {Delivered} ]

NextTwoPhase == NextOver(TwoPhaseInputs)

SpecTwoPhase == Init /\ [][NextTwoPhase]_vars

\* side effects that fail: broadcasts dropped, forwarder promises rejected, for
\* two-phase requests and resolves
DeliveryInputs ==
  [ maxCalls |-> MaxCalls,
    wellFormed |-> {TRUE},
    explicitIds |-> {NoId},
    submissions |-> {Submission("rm", "k1")},
    twoPhases |-> {TRUE},
    timeouts |-> {TimeoutMs(1)},
    typedIds |-> {IdA},
    decisions |-> {"allow-once"},
    resolvers |-> {"alice"},
    deliveries |-> Deliveries ]

NextDelivery == NextOver(DeliveryInputs)

SpecDelivery == Init /\ [][NextDelivery]_vars

\* repeated resolves of one id by two resolvers, one call more than MaxCalls;
\* requests with and without timeoutMs
RepeatInputs ==
  [ maxCalls |-> MaxCalls + 1,
    wellFormed |-> {TRUE},
    explicitIds |-> {NoId, SlugId},
    submissions |-> {Submission("rm", "k1")},
    twoPhases |-> {FALSE},
    timeouts |-> {TimeoutMs(1), TimeoutAbsent},
    typedIds |-> {SlugId, IdA},
    decisions |-> {"allow-once", "deny"},
    resolvers |-> Resolvers,
    deliveries |-> {Delivered} ]

NextRepeat == NextOver(RepeatInputs)

SpecRepeat == Init /\ [][NextRepeat]_vars

\* --------------------------------------------------- the id of a request

\* String.prototype.trim, front and back
RECURSIVE TrimStart(_)
TrimStart(s) == IF s # <<>> /\ Head(s) = " " THEN TrimStart(Tail(s)) ELSE s

RECURSIVE TrimEnd(_)
TrimEnd(s) ==
  IF s # <<>> /\ s[Len(s)] = " " THEN TrimEnd(SubSeq(s, 1, Len(s) - 1)) ELSE s

Trim(s) == TrimEnd(TrimStart(s))

\* an id parameter taken as it comes
explicitIdUntrimmed(rawId) == rawId

\* explicitId: the trimmed params.id, or none when nothing is left of it
explicitIdOf(rawId) == IF Len(Trim(rawId)) > 0 THEN Trim(rawId) ELSE NoId

\* exec.approval.request with params.id as the client sent it
RequestRaw(wellFormed, rawId, sub, twoPhase, timeoutIn, delivery) ==
  /\ Request(wellFormed, explicitIdOf(rawId), sub, twoPhase, timeoutIn, delivery)
  /\ requestedId' = [sent |-> TRUE, id |-> rawId]

\* id parameters: absent or empty, blank, bare, and padded at either end or both
RawIds ==
  { NoId, <<" ">>, <<" ", " ">>, SlugId, <<" ">> \o SlugId, SlugId \o <<" ">>,
    <<" ", " ">> \o SlugId \o <<" ">> }

RawInputs ==
  [ maxCalls |-> MaxCalls,
    wellFormed |-> {TRUE},
    rawIds |-> RawIds,
    submissions |-> {Submission("rm", "k1")},
    twoPhases |-> {FALSE},
    timeouts |-> {TimeoutMs(1)},
    deliveries |-> {Delivered} ]

\* requests with ids as clients send them, left to expire
NextRaw ==
  \/ /\ Len(calls) + Len(resolves) < RawInputs.maxCalls
     /\ \E wellFormed \in RawInputs.wellFormed, rawId \in RawInputs.rawIds,
           sub \in RawInputs.submissions, twoPhase \in RawInputs.twoPhases,
           timeoutIn \in RawInputs.timeouts, delivery \in RawInputs.deliveries :
          RequestRaw(wellFormed, rawId, sub, twoPhase, timeoutIn, delivery)
     /\ UNCHANGED command
  \/ (\E id \in Tracked : TimerFire(id)) /\ UNCHANGED <<command, requestedId>>
  \/ Deliver /\ UNCHANGED <<command, requestedId>>
  \/ Tick /\ UNCHANGED <<command, requestedId>>

SpecRaw == Init /\ [][NextRaw]_vars

\* ------------------------------------------------------- chat approve command

COMMAND == <<"/", "a", "p", "p", "r", "o", "v", "e">>
COMMAND_ALIAS == <<"/", "a", "c", "c", "e", "p", "t">>
TEXT_COMMAND == <<"a", "p", "p", "r", "o", "v", "e">>
TEXT_COMMAND_ALIAS == <<"a", "c", "c", "e", "p", "t">>

\* APPROVAL_ID_PATTERN.test(s): 8-4-4-4-12 hexadecimal characters
IsApprovalId(s) ==
  /\ Len(s) = 36
  /\ \A i \in 1..Len(s) :
       IF i \in {9, 14, 19, 24} THEN s[i] = "-" ELSE s[i] \in HexLower \cup HexUpper

\* an id of that shape
UuidId ==
  SlugId \o <<"-">> \o ShortId \o <<"-">> \o ShortId \o <<"-">> \o ShortId
         \o <<"-">> \o SlugId \o ShortId

\* the own keys of the DECISION_ALIASES object literal
DECISION_ALIASES ==
  (<<"a", "l", "l", "o", "w">> :> "allow-once")
    @@ (<<"o", "n", "c", "e">> :> "allow-once")
    @@ (<<"a", "l", "l", "o", "w", "-", "o", "n", "c", "e">> :> "allow-once")
    @@ (<<"a", "l", "l", "o", "w", "o", "n", "c", "e">> :> "allow-once")
    @@ (<<"a", "l", "w", "a", "y", "s">> :> "allow-always")
    @@ (<<"a", "l", "l", "o", "w", "-", "a", "l", "w", "a", "y", "s">> :> "allow-always")
    @@ (<<"a", "l", "l", "o", "w", "a", "l", "w", "a", "y", "s">> :> "allow-always")
    @@ (<<"d", "e", "n", "y">> :> "deny")
    @@ (<<"r", "e", "j", "e", "c", "t">> :> "deny")
    @@ (<<"b", "l", "o", "c", "k">> :> "deny")

\* the lower-case property names every object literal inherits from
\* Object.prototype
InheritedKeys ==
  { <<"c", "o", "n", "s", "t", "r", "u", "c", "t", "o", "r">>,
    <<"_", "_", "p", "r", "o", "t", "o", "_", "_">> }

\* the value of an inherited property: truthy, and no decision tag
Inherited == "[inherited]"
Undefined == "undefined"

\* DECISION_ALIASES[key]: a property lookup, own keys first, then the prototype
AliasOf(key) ==
  IF key \in DOMAIN DECISION_ALIASES THEN DECISION_ALIASES[key]
  ELSE IF key \in InheritedKeys THEN Inherited
  ELSE Undefined

\* parseApprovalId(raw): the id, or none
parseApprovalId(raw) ==
  IF raw = <<>> THEN NoId
  ELSE IF IsApprovalId(raw) THEN raw
  ELSE NoId

NotACommand == [isCommand |-> FALSE, ok |-> FALSE, id |-> NoId, decision |-> Undefined]
Usage == [isCommand |-> TRUE, ok |-> FALSE, id |-> NoId, decision |-> Undefined]
Parsed(id, decision) == [isCommand |-> TRUE, ok |-> TRUE, id |-> id, decision |-> decision]

\* the tokens after the command word; the message is given as its words
RestOf(text, word, glued) ==
  (IF glued /\ Len(text[1]) > Len(word)
     THEN <<SubSeq(text[1], Len(word) + 1, Len(text[1]))>>
     ELSE <<>>) \o Tail(text)

\* parseApproveCommand, from the tokens after the command word on
parseTokens(tokens) ==
  IF Len(tokens) = 0 THEN Usage
  ELSE IF Len(tokens) = 1
    THEN IF parseApprovalId(tokens[1]) # NoId
           THEN Parsed(parseApprovalId(tokens[1]), "allow-once")
           ELSE Usage
  ELSE IF Len(tokens) # 2 THEN Usage
  ELSE LET first == LowerCase(tokens[1])
           second == LowerCase(tokens[2])
       IN IF AliasOf(first) # Undefined
            THEN IF parseApprovalId(tokens[2]) = NoId
                   THEN Usage
                   ELSE Parsed(parseApprovalId(tokens[2]), AliasOf(first))
          ELSE IF AliasOf(second) # Undefined
            THEN IF parseApprovalId(tokens[1]) = NoId
                   THEN Usage
                   ELSE Parsed(parseApprovalId(tokens[1]), AliasOf(second))
          ELSE Usage

\* parseApproveCommand(raw), raw given as the words of the trimmed message
parseApproveCommand(text) ==
  IF text = <<>> THEN NotACommand
  ELSE LET lowered == LowerCase(text[1])
       IN IF StartsWith(lowered, COMMAND)
            THEN parseTokens(RestOf(text, COMMAND, TRUE))
          ELSE IF StartsWith(lowered, COMMAND_ALIAS)
            THEN parseTokens(RestOf(text, COMMAND_ALIAS, TRUE))
          ELSE IF lowered = TEXT_COMMAND
            THEN parseTokens(RestOf(text, TEXT_COMMAND, FALSE))
          ELSE IF lowered = TEXT_COMMAND_ALIAS
            THEN parseTokens(RestOf(text, TEXT_COMMAND_ALIAS, FALSE))
          ELSE NotACommand

\* a chat message with what the handler is told about it
Message(allowTextCommands, text, isAuthorizedSender, internal, scopes) ==
  [ allowTextCommands |-> allowTextCommands, text |-> text,
    isAuthorizedSender |-> isAuthorizedSender, internal |-> internal,
    scopes |-> scopes ]

\* what handleApproveCommand does with a message, up to the gateway call
Disposition(m) ==
  LET parsed == parseApproveCommand(m.text)
  IN IF ~m.allowTextCommands THEN "pass"
     ELSE IF ~parsed.isCommand THEN "pass"
     ELSE IF ~m.isAuthorizedSender THEN "ignored"
     ELSE IF ~parsed.ok THEN "usage"
     ELSE IF m.internal /\ m.scopes \cap {"operator.approvals", "operator.admin"} = {}
       THEN "forbidden"
     ELSE "call"

\* a handler that submits for an internal client whatever its scopes
handleApproveCommandSkipsScopes(m, wellFormed) ==
  LET parsed == parseApproveCommand(m.text)
      submit == m.allowTextCommands /\ parsed.isCommand /\ m.isAuthorizedSender /\ parsed.ok
  IN /\ NoMicrotask
     /\ command' = [ handled |-> TRUE, message |-> m, parsed |-> parsed,
                     disposition |-> IF submit THEN "call" ELSE Disposition(m) ]
     /\ IF submit
          THEN Resolve(wellFormed, parsed.id, parsed.decision, "chat", Delivered)
          ELSE UNCHANGED <<records, calls, resolves, broadcasts, forwards,
                           issued, serials, now>>

\* handleApproveCommand: the message is dropped, answered, or submitted to
\* exec.approval.resolve through the gateway
handleApproveCommand(m, wellFormed) ==
  LET parsed == parseApproveCommand(m.text)
  IN /\ NoMicrotask
     /\ command' = [ handled |-> TRUE, message |-> m, parsed |-> parsed,
                     disposition |-> Disposition(m) ]
     /\ IF Disposition(m) = "call"
          THEN Resolve(wellFormed, parsed.id, parsed.decision, "chat", Delivered)
          ELSE UNCHANGED <<records, calls, resolves, broadcasts, forwards,
                           issued, serials, now>>

\* the messages of the chat channel
Decided(word) == <<TEXT_COMMAND, UuidId, word>>

Texts ==
  { <<TEXT_COMMAND, UuidId>>,
    <<COMMAND, UuidId, <<"D", "e", "n", "y">>>>,
    <<TEXT_COMMAND_ALIAS, <<"a", "l", "w", "a", "y", "s">>, UuidId>>,
    <<COMMAND_ALIAS \o UuidId>>,
    <<TEXT_COMMAND, SlugId, <<"d", "e", "n", "y">>>>,
    Decided(<<"m", "a", "y", "b", "e">>),
    Decided(<<"c", "o", "n", "s", "t", "r", "u", "c", "t", "o", "r">>),
    <<TEXT_COMMAND>>,
    <<<<"h", "e", "l", "l", "o">>, UuidId>> }

\* every sender and channel for a message that parses, every message for a
\* sender who may approve
Messages ==
  { Message(TRUE, text, authorized, internal, scopes) :
      text \in {<<TEXT_COMMAND, UuidId>>}, authorized \in BOOLEAN,
      internal \in BOOLEAN,
      scopes \in {{}, {"operator.approvals"}, {"operator.admin"}} }
    \cup { Message(allow, text, TRUE, FALSE, {}) : allow \in BOOLEAN, text \in Texts }

\* approvals requested under the id the chat command names
ApproveInputs ==
  [ maxCalls |-> MaxCalls - 1,
    wellFormed |-> {TRUE},
    explicitIds |-> {UuidId},
    submissions |-> {Submission("rm", "k1")},
    twoPhases |-> {FALSE},
    timeouts |-> {TimeoutMs(1)},
    deliveries |-> {Delivered} ]

\* requests come in over the gateway and are decided from chat or expire
NextApprove ==
  \/ /\ Len(calls) + Len(resolves) < ApproveInputs.maxCalls
     /\ \E wellFormed \in ApproveInputs.wellFormed, explicitId \in ApproveInputs.explicitIds,
           sub \in ApproveInputs.submissions, twoPhase \in ApproveInputs.twoPhases,
           timeoutIn \in ApproveInputs.timeouts, delivery \in ApproveInputs.deliveries :
          Request(wellFormed, explicitId, sub, twoPhase, timeoutIn, delivery)
     /\ UNCHANGED <<command, requestedId>>
  \/ /\ Len(calls) + Len(resolves) < ApproveInputs.maxCalls
     /\ \E m \in Messages :
          \E wellFormed \in
               IF parseApproveCommand(m.text).decision \in Decisions THEN {TRUE} ELSE BOOLEAN :
             handleApproveCommand(m, wellFormed)
     /\ UNCHANGED requestedId
  \/ (\E id \in Tracked : TimerFire(id)) /\ UNCHANGED <<command, requestedId>>
  \/ Deliver /\ UNCHANGED <<command, requestedId>>
  \/ Tick /\ UNCHANGED <<command, requestedId>>

SpecApprove == Init /\ [][NextApprove]_vars

\* ------------------------------------------------------------------ claims
Last(seq) == seq[Len(seq)]

\* the successful resolve calls that resolved the record object with this serial
ResolvedBy(serial) ==
  {i \in 1..Len(resolves) : resolves[i].response.ok /\ resolves[i].serial = serial}

\* the calls subscribed to the decision of the record object with this serial
WaitersOf(serial) == {i \in 1..Len(calls) : calls[i].serial = serial}

\* the final responses a call has received
Finals(c) == {k \in 1..Len(c.responses) : c.responses[k].status = "final"}

\* the pending ids that start with the typed id
PendingSharing(rawId) ==
  {id \in Tracked : records[id].status = "pending" /\ StartsWith(id, rawId)}

\* the step is one exec.approval.resolve call
IsResolveStep == Len(resolves') = Len(resolves) + 1

\* C1: for every record, exactly one of {resolve, expiry timeout} performs the
\* pending-to-terminal transition: a pending record has had none, a resolved
\* record exactly one successful resolve and no timer fire, an expired record
\* exactly one timer fire and no successful resolve; the record keeps what the
\* winner wrote, so the one that came second changed nothing on it.
C1_ExactlyOneTerminalTransition ==
  \A id \in Tracked :
    LET r == records[id]
        byResolve == Cardinality(ResolvedBy(r.serial))
        byTimeout == IF r.timer = "fired" THEN 1 ELSE 0
    IN /\ byResolve + byTimeout = (IF r.status = "pending" THEN 0 ELSE 1)
       /\ r.status = "resolved" <=> byResolve = 1
       /\ r.status = "expired" <=> byTimeout = 1
       /\ r.status = "resolved" =>
            /\ r.timer = "cancelled"
            /\ \A i \in ResolvedBy(r.serial) :
                 /\ r.decision = resolves[i].decision
                 /\ r.resolvedBy = resolves[i].resolvedBy
                 /\ r.resolvedAtMs = resolves[i].ts
       /\ r.status = "expired" => r.decision = Null /\ r.resolvedBy = Null

\* C1 witness: an expired record on which a later resolve call by its exact id
\* has failed
C1_Witness ==
  \E id \in Tracked :
    /\ records[id].status = "expired"
    /\ \E i \in 1..Len(resolves) :
         /\ resolves[i].typedSerial = records[id].serial
         /\ ~resolves[i].response.ok

\* C2: once a record is terminal, no step changes its status or its decision
\* while it is tracked.
C2_TerminalNeverChanges ==
  [][\A id \in Tracked :
       (records[id].status # "pending" /\ id \in DOMAIN records') =>
         /\ records'[id].status = records[id].status
         /\ records'[id].decision = records[id].decision]_vars

\* C2 witness: a resolved record on which a later resolve call with another
\* decision has been made
C2_Witness ==
  \E id \in Tracked :
    /\ records[id].status = "resolved"
    /\ \E i \in 1..Len(resolves) :
         /\ resolves[i].typedSerial = records[id].serial
         /\ resolves[i].decision # records[id].decision

\* C3: when resolve is called twice for the same full id (the first call resolved
\* the record with exactly that id, the second finds that record still tracked),
\* the second call fails with 'unknown approval id', the first decision stays
\* and every waiter of the record observes it.
C3_SecondResolveFails ==
  \A i, j \in 1..Len(resolves) :
    ( /\ i < j
      /\ resolves[i].response.ok
      /\ resolves[i].resolvedId = resolves[i].typed
      /\ resolves[j].typed = resolves[i].typed
      /\ resolves[j].typedSerial = resolves[i].serial ) =>
        /\ resolves[j].response = ErrorResponse("unknown approval id", {})
        /\ \A id \in Tracked :
             records[id].serial = resolves[i].serial =>
               records[id].decision = resolves[i].decision
        /\ \A k \in WaitersOf(resolves[i].serial) :
             \A f \in Finals(calls[k]) :
               calls[k].responses[f].decision = resolves[i].decision

\* C4: a request with no explicit id that arrives while the record of an earlier
\* request with no explicit id and the same fingerprint is pending reports that
\* record's id, and no 'requested' broadcast or forward is made for it.
C4_DuplicateRequestReusesId ==
  [][\A i \in 1..Len(calls) :
       ( /\ Len(calls') = Len(calls) + 1
         /\ Last(calls').method = "request"
         /\ Last(calls').typed = NoId
         /\ calls[i].method = "request"
         /\ calls[i].typed = NoId
         /\ calls[i].fingerprint = Last(calls').fingerprint
         /\ calls[i].target \in Tracked
         /\ records[calls[i].target].serial = calls[i].serial
         /\ records[calls[i].target].status = "pending" ) =>
           /\ Last(calls').target = calls[i].target
           /\ broadcasts' = broadcasts
           /\ forwards' = forwards]_vars

\* C5: at most one pending record exists per fingerprint.
C5_OnePendingPerFingerprint ==
  \A a, b \in Tracked :
    ( /\ records[a].status = "pending"
      /\ records[b].status = "pending"
      /\ records[a].fingerprint = records[b].fingerprint ) => a = b

\* C6: a record whose timer fired unresolved is expired with decision null, and
\* every call waiting on it has been given null: none still waits, a resumed one
\* carries null, a finished one got a successful final response with decision
\* null.
C6_ExpiryDeliversNull ==
  \A id \in Tracked :
    records[id].timer = "fired" =>
      /\ records[id].status = "expired"
      /\ records[id].decision = Null
      /\ \A i \in WaitersOf(records[id].serial) :
           /\ calls[i].pc # "await"
           /\ calls[i].pc = "resume" => calls[i].value = Null
           /\ calls[i].pc = "done" =>
                /\ Finals(calls[i]) # {}
                /\ \A f \in Finals(calls[i]) :
                     /\ calls[i].responses[f].ok
                     /\ calls[i].responses[f].decision = Null
                     /\ calls[i].responses[f].id = id

\* C6 witness: an expired record whose request caller and a second waiter have
\* both received their final response
C6_Witness ==
  \E id \in Tracked :
    /\ records[id].status = "expired"
    /\ \E i, j \in WaitersOf(records[id].serial) :
         /\ i # j
         /\ ~calls[i].late /\ ~calls[j].late
         /\ calls[i].pc = "done" /\ calls[j].pc = "done"

\* C7: the waiters of one record all receive the same decision, the record's,
\* and each receives its final response exactly once: none before it is resumed,
\* one, as its last response, when it is done.
C7_SameDecisionOnce ==
  /\ \A i, j \in 1..Len(calls) :
       (calls[i].serial # 0 /\ calls[i].serial = calls[j].serial) =>
         \A f \in Finals(calls[i]), g \in Finals(calls[j]) :
           calls[i].responses[f].decision = calls[j].responses[g].decision
  /\ \A i \in 1..Len(calls) :
       calls[i].serial # 0 =>
         /\ Cardinality(Finals(calls[i])) = (IF calls[i].pc = "done" THEN 1 ELSE 0)
         /\ calls[i].pc = "done" => Last(calls[i].responses).status = "final"
         /\ \A f \in Finals(calls[i]) :
              /\ calls[i].responses[f].id = calls[i].target
              /\ \A id \in Tracked :
                   records[id].serial = calls[i].serial =>
                     calls[i].responses[f].decision = records[id].decision

\* C7 witness: two waiters of one resolved record (the requester and a
\* deduplicated requester or a waitDecision caller), both subscribed while it was
\* pending, have been answered
C7_Witness ==
  \E id \in Tracked :
    /\ records[id].status = "resolved"
    /\ \E i, j \in WaitersOf(records[id].serial) :
         /\ i # j
         /\ ~calls[i].late /\ ~calls[j].late
         /\ calls[i].pc = "done" /\ calls[j].pc = "done"
         /\ Last(calls[j].responses).decision \in Decisions

\* C8: a waitDecision call that finds its record terminal changes nothing in
\* the registry, broadcasts and forwards nothing, and is answered with the
\* stored decision.
C8_LateWaitIsReadOnly ==
  [][/\ ( /\ Len(calls') = Len(calls) + 1
          /\ Last(calls').method = "waitDecision"
          /\ Last(calls').late ) =>
            /\ records' = records
            /\ broadcasts' = broadcasts
            /\ forwards' = forwards
            /\ resolves' = resolves
            /\ Last(calls').pc = "resume"
            /\ Last(calls').value = records[Last(calls').target].decision
     /\ \A i \in 1..Len(calls) :
          ( /\ calls[i].late
            /\ calls[i].pc = "resume"
            /\ Len(calls') = Len(calls)
            /\ calls'[i].pc = "done" ) =>
              /\ records' = records
              /\ broadcasts' = broadcasts
              /\ forwards' = forwards
              /\ Last(calls'[i].responses).ok
              /\ Last(calls'[i].responses).id = calls[i].target
              /\ Last(calls'[i].responses).decision = records[calls[i].target].decision]_vars

\* C8 witness: a waitDecision call that subscribed after a resolve has been
\* answered with a decision
C8_Witness ==
  \E i \in 1..Len(calls) :
    /\ calls[i].method = "waitDecision"
    /\ calls[i].late
    /\ calls[i].pc = "done"
    /\ Last(calls[i].responses).decision \in Decisions

\* C9: a resolve call with a short id that is not itself a pending id and is the
\* prefix of two or more pending ids fails with the ambiguity error listing
\* exactly those ids; no record changes and nothing is broadcast or forwarded.
C9_AmbiguousPrefixFails ==
  [][( /\ IsResolveStep
       /\ IsSlug(Last(resolves').typed)
       /\ ~IsPending(Last(resolves').typed)
       /\ Cardinality(PendingSharing(Last(resolves').typed)) >= 2 ) =>
         /\ ~Last(resolves').response.ok
         /\ Last(resolves').response.error = "ambiguous approval id prefix"
         /\ Last(resolves').response.matches = PendingSharing(Last(resolves').typed)
         /\ records' = records
         /\ calls' = calls
         /\ broadcasts' = broadcasts
         /\ forwards' = forwards]_vars

\* C9 witness: a resolve call has been refused as ambiguous between two ids
C9_Witness ==
  \E i \in 1..Len(resolves) :
    /\ resolves[i].response.error = "ambiguous approval id prefix"
    /\ Cardinality(resolves[i].response.matches) >= 2

\* C10: a resolve call that succeeds for the typed id r resolves the pending
\* record whose id is r, or, r being a short id, the only pending record whose id
\* starts with r, and no other record changes; a short id that is the prefix of
\* no pending id (and is no pending id) gets 'unknown approval id'.
C10_PrefixResolvesTheOnlyMatch ==
  [][IsResolveStep =>
       LET e == Last(resolves')
       IN /\ e.response.ok =>
               /\ IsPending(e.resolvedId)
               /\ \/ e.resolvedId = e.typed
                  \/ IsSlug(e.typed) /\ PendingSharing(e.typed) = {e.resolvedId}
               /\ DOMAIN records' = Tracked
               /\ records'[e.resolvedId].status = "resolved"
               /\ \A id \in Tracked \ {e.resolvedId} : records'[id] = records[id]
          /\ ( /\ IsSlug(e.typed)
               /\ ~IsPending(e.typed)
               /\ PendingSharing(e.typed) = {} ) =>
                 /\ e.response = ErrorResponse("unknown approval id", {})
                 /\ records' = records]_vars

\* C10 witness: a resolve call by a short id has resolved the record of a longer
\* id
C10_Witness ==
  \E i \in 1..Len(resolves) :
    /\ resolves[i].response.ok
    /\ resolves[i].resolvedId # resolves[i].typed
    /\ resolves[i].resolvedId \in Tracked
    /\ records[resolves[i].resolvedId].status = "resolved"

\* C11: prefix resolution in exec.approval.resolve looks at pending records
\* only. When the typed short id is no pending id and terminal records whose ids
\* start with it are still tracked, the outcome is decided by the pending ids
\* sharing the prefix alone: one resolves it, several make it ambiguous (listing
\* only them), none leaves 'unknown approval id'; no terminal record is selected,
\* listed or changed.
C11_PrefixSeesPendingOnly ==
  [][( /\ IsResolveStep
       /\ IsSlug(Last(resolves').typed)
       /\ ~IsPending(Last(resolves').typed)
       /\ Last(resolves').graceMatches # {} ) =>
         LET e == Last(resolves')
             open == PendingSharing(e.typed)
         IN /\ e.resolvedId \notin e.graceMatches
            /\ e.response.matches \cap e.graceMatches = {}
            /\ \A id \in e.graceMatches : id \in DOMAIN records' /\ records'[id] = records[id]
            /\ Cardinality(open) = 1 => e.response.ok /\ e.resolvedId \in open
            /\ Cardinality(open) > 1 =>
                 e.response = ErrorResponse("ambiguous approval id prefix", open)
            /\ Cardinality(open) = 0 =>
                 e.response = ErrorResponse("unknown approval id", {})]_vars

\* C11 witness: a resolve call by a short id resolved the one pending record
\* while a terminal record with the same prefix was still tracked
C11_Witness ==
  \E i \in 1..Len(resolves) :
    /\ resolves[i].response.ok
    /\ resolves[i].resolvedId # resolves[i].typed
    /\ resolves[i].graceMatches # {}

\* the request calls the handler did not reject: they subscribed to a record
Subscribed(c) == c.method = "request" /\ c.target # NoId

\* C12 as stated: every request with twoPhase = true that passes validation gets
\* an accepted response first and, once answered, exactly accepted then final;
\* every request without twoPhase that passes validation gets, once answered,
\* exactly one response, the final one.
C12_ValidRequestGetsAcceptedThenFinal ==
  \A i \in 1..Len(calls) :
    (calls[i].method = "request" /\ calls[i].wellFormed) =>
      LET c == calls[i]
      IN /\ c.twoPhase =>
              /\ Len(c.responses) >= 1
              /\ c.responses[1].status = "accepted"
              /\ c.pc = "done" =>
                   Len(c.responses) = 2 /\ c.responses[2].status = "final"
         /\ (~c.twoPhase /\ c.pc = "done") =>
              Len(c.responses) = 1 /\ c.responses[1].status = "final"

\* C12 amended: a request that passes validation and is not rejected (duplicate
\* explicit id) gets, with twoPhase = true, an accepted response carrying the
\* id, createdAtMs and expiresAtMs of its record at once, and the final response
\* as its second and last one; without twoPhase nothing until the final
\* response, its only one. A rejected request gets exactly one response, the
\* error.
C12_TwoPhaseResponses ==
  \A i \in 1..Len(calls) :
    LET c == calls[i]
        IsAccepted(r) ==
          /\ r.ok /\ r.status = "accepted" /\ r.id = c.target
          /\ r.createdAtMs = c.createdAtMs /\ r.expiresAtMs = c.expiresAtMs
        IsFinal(r) == r.ok /\ r.status = "final" /\ r.id = c.target
    IN /\ (Subscribed(c) /\ c.twoPhase) =>
            /\ Len(c.responses) = (IF c.pc = "done" THEN 2 ELSE 1)
            /\ IsAccepted(c.responses[1])
            /\ c.pc = "done" => IsFinal(c.responses[2])
       /\ (Subscribed(c) /\ ~c.twoPhase) =>
            /\ Len(c.responses) = (IF c.pc = "done" THEN 1 ELSE 0)
            /\ c.pc = "done" => IsFinal(c.responses[1])
       /\ (c.method = "request" /\ ~Subscribed(c)) =>
            /\ c.pc = "done"
            /\ Len(c.responses) = 1
            /\ ~c.responses[1].ok
       /\ (c.method = "request" /\ c.wellFormed /\ ~Subscribed(c)) =>
            c.typed # NoId /\ c.responses[1].error = "approval id already pending"

\* C12 witness: a two-phase request has received accepted and then a final
\* response with a decision, and a single-phase request its only response
C12_Witness ==
  \E i, j \in 1..Len(calls) :
    /\ Subscribed(calls[i]) /\ calls[i].twoPhase /\ calls[i].pc = "done"
    /\ calls[i].responses[2].decision \in Decisions
    /\ Subscribed(calls[j]) /\ ~calls[j].twoPhase /\ calls[j].pc = "done"

\* the ids a two-phase caller holds from an accepted response while it is still
\* waiting for the decision
AcceptedIds ==
  {calls[i].target : i \in {k \in 1..Len(calls) :
      /\ calls[k].method = "request"
      /\ calls[k].pc = "await"
      /\ calls[k].responses # <<>>
      /\ calls[k].responses[1].status = "accepted"}}

\* C13: the record is in the registry when the accepted response is sent: an
\* accepted id whose decision is still awaited names a tracked pending record,
\* and a waitDecision or a resolve call on that id then never reports not-found
\* or unknown: the waitDecision subscribes to the record, the resolve resolves it.
C13_AcceptedIdIsKnown ==
  [][/\ \A id \in AcceptedIds' : id \in DOMAIN records' /\ records'[id].status = "pending"
     /\ ( /\ Len(calls') = Len(calls) + 1
          /\ Last(calls').method = "waitDecision"
          /\ Last(calls').typed \in AcceptedIds ) =>
            /\ Last(calls').responses = <<>>
            /\ Last(calls').pc = "await"
            /\ Last(calls').target = Last(calls').typed
     /\ ( /\ IsResolveStep
          /\ Last(resolves').typed \in AcceptedIds ) =>
            /\ Last(resolves').response = OkResponse
            /\ Last(resolves').resolvedId = Last(resolves').typed]_vars

\* C13 witness: on the id accepted for a two-phase request a waitDecision call
\* subscribed while the record was pending, and a resolve call succeeded
C13_Witness ==
  \E i, j \in 1..Len(calls), k \in 1..Len(resolves) :
    /\ calls[i].method = "request" /\ calls[i].twoPhase
    /\ calls[i].responses # <<>> /\ calls[i].responses[1].status = "accepted"
    /\ calls[j].method = "waitDecision" /\ ~calls[j].late
    /\ calls[j].typed = calls[i].responses[1].id
    /\ calls[j].serial = calls[i].serial
    /\ resolves[k].response.ok
    /\ resolves[k].typed = calls[i].responses[1].id
    /\ resolves[k].serial = calls[i].serial

\* the step is one exec.approval.request call that passed validation and
\* supplied an explicit id
IsExplicitRequestStep ==
  /\ Len(calls') = Len(calls) + 1
  /\ Last(calls').method = "request"
  /\ Last(calls').wellFormed
  /\ Last(calls').typed # NoId

\* the request call was answered with the duplicate-id error
RejectedAsDuplicate(c) ==
  /\ c.pc = "done"
  /\ c.responses = <<ErrorResponse("approval id already pending", {})>>

\* C14 as stated: a request with an explicit id is rejected as a duplicate if
\* and only if a record with that id is currently pending.
C14_RejectedIffPending ==
  [][IsExplicitRequestStep =>
       (RejectedAsDuplicate(Last(calls')) <=> IsPending(Last(calls').typed))]_vars

\* C14 amended: a request with an explicit id is rejected as a duplicate if and
\* only if a record with that id is tracked, pending or terminal. When it is
\* rejected no record is created, the tracked records are unchanged and nothing
\* is broadcast or forwarded; otherwise a new pending record with that id is
\* registered and the call waits for its decision.
C14_RejectedIffTracked ==
  [][IsExplicitRequestStep =>
       LET c == Last(calls')
       IN /\ RejectedAsDuplicate(c) <=> c.typed \in Tracked
          /\ RejectedAsDuplicate(c) =>
               /\ records' = records
               /\ broadcasts' = broadcasts
               /\ forwards' = forwards
               /\ serials' = serials
          /\ ~RejectedAsDuplicate(c) =>
               /\ DOMAIN records' = Tracked \cup {c.typed}
               /\ records'[c.typed].status = "pending"
               /\ records'[c.typed].serial = serials + 1
               /\ \A id \in Tracked : records'[id] = records[id]
               /\ c.target = c.typed
               /\ c.pc = "await"
               /\ Len(broadcasts') = Len(broadcasts) + 1
               /\ Last(broadcasts').event = "exec.approval.requested"
               /\ Last(broadcasts').id = c.typed]_vars

\* C14 witness: a request was rejected for an explicit id whose record is
\* tracked and expired, and the id has been registered only once
C14_Witness ==
  \E i \in 1..Len(calls) :
    /\ calls[i].method = "request"
    /\ RejectedAsDuplicate(calls[i])
    /\ calls[i].typed \in Tracked
    /\ records[calls[i].typed].status = "expired"
    /\ \E j \in 1..(i - 1) :
         /\ calls[j].target = calls[i].typed
         /\ calls[j].serial = records[calls[i].typed].serial
         /\ calls[j].pc = "done"

\* C15: no two tracked records have the same id: a record enters the registry
\* only under an id that is not tracked, pending or terminal, so it never takes
\* the place of a tracked record, and every id that stays tracked keeps naming
\* the same record.
C15_TrackedIdsAreUnique ==
  [][/\ \A id \in Tracked \cap DOMAIN records' : records'[id].serial = records[id].serial
     /\ \A id \in DOMAIN records' \ Tracked : records'[id].serial = serials + 1
     /\ serials' # serials => Cardinality(DOMAIN records') = Cardinality(Tracked) + 1
     /\ \A a, b \in DOMAIN records' :
          records'[a].serial = records'[b].serial => a = b]_vars

\* C15 witness: with a terminal record tracked under an explicit id, a second
\* request supplied the same id
C15_Witness ==
  \E i, j \in 1..Len(calls) :
    /\ i < j
    /\ calls[i].method = "request" /\ calls[j].method = "request"
    /\ calls[i].typed # NoId
    /\ calls[j].typed = calls[i].typed
    /\ calls[i].target \in Tracked
    /\ records[calls[i].target].serial = calls[i].serial
    /\ records[calls[i].target].status # "pending"

\* C16: a resolve call whose decision is none of allow-once, allow-always and
\* deny is answered with an error; no record changes, no waiter is fulfilled and
\* nothing is broadcast or forwarded.
C16_InvalidDecisionRejected ==
  [][( /\ IsResolveStep
       /\ Last(resolves').decision \notin {"allow-once", "allow-always", "deny"} ) =>
         /\ ~Last(resolves').response.ok
         /\ Last(resolves').response.error
              \in {"invalid decision", "invalid exec.approval.resolve params"}
         /\ records' = records
         /\ calls' = calls
         /\ broadcasts' = broadcasts
         /\ forwards' = forwards]_vars

\* C16 witness: a resolve call on the exact id of a pending record was refused
\* for its decision, and the requester is still waiting
C16_Witness ==
  \E k \in 1..Len(resolves) :
    /\ resolves[k].response.error = "invalid decision"
    /\ resolves[k].typed \in Tracked
    /\ records[resolves[k].typed].status = "pending"
    /\ resolves[k].typedSerial = records[resolves[k].typed].serial
    /\ \E i \in WaitersOf(resolves[k].typedSerial) : calls[i].pc = "await"

\* C17: a request with malformed params gets exactly one response, an error, and
\* leaves the registry as it was: no record is created, no timer armed, nothing
\* broadcast or forwarded; the call is over and is never answered again.
C17_MalformedRequestRejected ==
  [][/\ ( /\ Len(calls') = Len(calls) + 1
          /\ Last(calls').method = "request"
          /\ ~Last(calls').wellFormed ) =>
            /\ records' = records
            /\ serials' = serials
            /\ issued' = issued
            /\ broadcasts' = broadcasts
            /\ forwards' = forwards
            /\ resolves' = resolves
     /\ \A i \in 1..Len(calls') :
          (calls'[i].method = "request" /\ ~calls'[i].wellFormed) =>
            /\ calls'[i].pc = "done"
            /\ Len(calls'[i].responses) = 1
            /\ ~calls'[i].responses[1].ok
            /\ calls'[i].responses[1].error = "invalid exec.approval.request params"]_vars

\* C17 witness: a malformed request was refused after a well-formed one whose
\* record has been resolved
C17_Witness ==
  \E i \in 1..Len(calls) :
    /\ calls[i].method = "request"
    /\ ~calls[i].wellFormed
    /\ calls[i].pc = "done"
    /\ \E j \in 1..(i - 1) :
         /\ calls[j].method = "request" /\ calls[j].wellFormed
         /\ calls[j].target \in Tracked
         /\ records[calls[j].target].status = "resolved"

\* the step emitted an event (a broadcast and a forward) of which the broadcast
\* was dropped or the forward failed
IsFailedDeliveryStep ==
  /\ Len(broadcasts') = Len(broadcasts) + 1
  /\ Len(forwards') = Len(forwards) + 1
  /\ ~Last(broadcasts').delivered \/ ~Last(forwards').delivered

\* C18: a dropped broadcast or a failed forward never blocks or fails the call
\* that emitted it. The request has registered its pending record, has its
\* accepted response if it asked for one and waits for the decision; the resolve
\* is answered with success and has resolved the record with its decision and
\* woken the waiters, exactly as resolved and fulfilled say. Afterwards every
\* caller waits only while its record is pending and is answered with the
\* record's decision.
C18_DeliveryFailureIsHarmless ==
  [][/\ (IsFailedDeliveryStep /\ Last(broadcasts').event = "exec.approval.requested") =>
          LET c == Last(calls')
              id == Last(broadcasts').id
          IN /\ Len(calls') = Len(calls) + 1
             /\ c.target = id
             /\ c.pc = "await"
             /\ id \in DOMAIN records' /\ records'[id].status = "pending"
             /\ records'[id].timer = "armed"
             /\ Len(c.responses) = (IF c.twoPhase THEN 1 ELSE 0)
             /\ c.twoPhase => c.responses[1].ok /\ c.responses[1].status = "accepted"
     /\ (IsFailedDeliveryStep /\ Last(broadcasts').event = "exec.approval.resolved") =>
          LET e == Last(resolves')
          IN /\ IsResolveStep
             /\ e.response = OkResponse
             /\ e.resolvedId = Last(broadcasts').id
             /\ records' = resolved(e.resolvedId, e.decision, e.resolvedBy)
             /\ records'[e.resolvedId].status = "resolved"
             /\ records'[e.resolvedId].decision = e.decision
             /\ calls' = fulfilled(e.resolvedId, e.decision)
     /\ \A i \in 1..Len(calls') :
          LET c == calls'[i]
          IN (c.target \in DOMAIN records' /\ records'[c.target].serial = c.serial) =>
               /\ c.pc = "await" <=> records'[c.target].status = "pending"
               /\ c.pc = "done" =>
                    /\ Last(c.responses).ok
                    /\ Last(c.responses).status = "final"
                    /\ Last(c.responses).decision = records'[c.target].decision]_vars

\* C18 witness: the requested event of a two-phase request and the resolved
\* event of the resolve call both failed on both channels; the resolve call
\* succeeded and the requester got the decision
C18_Witness ==
  \E i \in 1..Len(calls), k \in 1..Len(resolves) :
    /\ calls[i].method = "request" /\ calls[i].twoPhase /\ calls[i].pc = "done"
    /\ resolves[k].response.ok
    /\ resolves[k].serial = calls[i].serial
    /\ Last(calls[i].responses).decision = resolves[k].decision
    /\ \A b \in 1..Len(broadcasts) : ~broadcasts[b].delivered
    /\ \A f \in 1..Len(forwards) : ~forwards[f].delivered

\* C19: a resolve call that succeeds sets the status of its record to resolved
\* and stores the decision and the resolver; every call waiting on that record
\* is woken with that decision and no other call is touched; exactly one
\* 'exec.approval.resolved' event is broadcast, and one forwarded, carrying the
\* full id of the resolved record (not the typed prefix), the decision and the
\* resolver, and it is out when the success response is.
C19_SuccessfulResolve ==
  [][(IsResolveStep /\ Last(resolves').response.ok) =>
       LET e == Last(resolves')
           id == e.resolvedId
       IN /\ e.response = OkResponse
          /\ IsPending(id)
          /\ StartsWith(id, e.typed)
          /\ records'[id].status = "resolved"
          /\ records'[id].decision = e.decision
          /\ records'[id].resolvedBy = e.resolvedBy
          /\ records'[id].resolvedAtMs = now
          /\ Len(calls') = Len(calls)
          /\ \A i \in 1..Len(calls) :
               IF calls[i].pc = "await" /\ calls[i].target = id
                 THEN /\ calls'[i].pc = "resume"
                      /\ calls'[i].value = e.decision
                      /\ calls'[i].responses = calls[i].responses
                 ELSE calls'[i] = calls[i]
          /\ Len(broadcasts') = Len(broadcasts) + 1
          /\ SubSeq(broadcasts', 1, Len(broadcasts)) = broadcasts
          /\ Last(broadcasts').event = "exec.approval.resolved"
          /\ Last(broadcasts').id = id
          /\ Last(broadcasts').decision = e.decision
          /\ Last(broadcasts').resolvedBy = e.resolvedBy
          /\ Len(forwards') = Len(forwards) + 1
          /\ Last(forwards').event = "exec.approval.resolved"
          /\ Last(forwards').id = id
          /\ Last(forwards').decision = e.decision]_vars

\* C19 witness: a resolve by short id succeeded, the event carries the full id,
\* and a waiter of the record has been answered with the decision
C19_Witness ==
  \E k \in 1..Len(resolves), b \in 1..Len(broadcasts), i \in 1..Len(calls) :
    /\ resolves[k].response.ok
    /\ resolves[k].resolvedId # resolves[k].typed
    /\ broadcasts[b].event = "exec.approval.resolved"
    /\ broadcasts[b].id = resolves[k].resolvedId
    /\ calls[i].serial = resolves[k].serial
    /\ calls[i].pc = "done"
    /\ Last(calls[i].responses).decision = resolves[k].decision

\* C20: once a record is resolved its expiry timer is cancelled and stays so:
\* no step fires it, the record never becomes expired, and no waiter of the
\* record is woken or answered with null.
C20_ResolvedNeverExpires ==
  [][\A id \in Tracked :
       records[id].status = "resolved" =>
         /\ records[id].timer = "cancelled"
         /\ id \in DOMAIN records' =>
              /\ records'[id].timer = "cancelled"
              /\ records'[id].status = "resolved"
         /\ \A i \in 1..Len(calls') :
              calls'[i].serial = records[id].serial =>
                /\ calls'[i].pc # "await"
                /\ calls'[i].pc = "resume" => calls'[i].value # Null
                /\ \A f \in Finals(calls'[i]) : calls'[i].responses[f].decision # Null]_vars

\* C20 witness: a record resolved before its deadline is still tracked and
\* resolved after the deadline has passed, its requester answered
C20_Witness ==
  \E id \in Tracked :
    /\ records[id].status = "resolved"
    /\ records[id].resolvedAtMs < records[id].expiresAtMs
    /\ now >= records[id].expiresAtMs
    /\ \E i \in WaitersOf(records[id].serial) :
         calls[i].pc = "done" /\ Last(calls[i].responses).decision \in Decisions

\* the step is one exec.approval.waitDecision call
IsWaitStep ==
  /\ Len(calls') = Len(calls) + 1
  /\ Last(calls').method = "waitDecision"

\* C21 as stated: a waitDecision call on the id of a tracked record, pending or
\* terminal, subscribes to that record and takes its snapshot; on an id that is
\* not tracked (removed after the grace period, or never issued) it fails with
\* 'approval expired or not found'; on an empty id with 'id is required'.
C21_WaitFindsTrackedOnly ==
  [][IsWaitStep =>
       LET c == Last(calls')
       IN /\ c.typed = NoId =>
               c.responses = <<ErrorResponse("id is required", {})>>
          /\ c.typed \in Tracked =>
               /\ c.target = c.typed
               /\ c.responses = <<>>
               /\ c.serial = records[c.typed].serial
               /\ c.createdAtMs = records[c.typed].createdAtMs
               /\ c.expiresAtMs = records[c.typed].expiresAtMs
               /\ records[c.typed].status # "pending" =>
                    c.pc = "resume" /\ c.value = records[c.typed].decision
          /\ (c.typed # NoId /\ c.typed \notin Tracked) =>
               /\ c.pc = "done"
               /\ c.responses = <<ErrorResponse("approval expired or not found", {})>>]_vars

\* C21 amended: as stated, except that an id that is not tracked fails with
\* 'approval expired or not found' only if it is not a short id that some
\* tracked id starts with (such an id is matched as a prefix).
C21_WaitFindsTrackedOrPrefix ==
  [][IsWaitStep =>
       LET c == Last(calls')
       IN /\ c.typed = NoId =>
               c.responses = <<ErrorResponse("id is required", {})>>
          /\ c.typed \in Tracked =>
               /\ c.target = c.typed
               /\ c.responses = <<>>
               /\ c.serial = records[c.typed].serial
               /\ c.createdAtMs = records[c.typed].createdAtMs
               /\ c.expiresAtMs = records[c.typed].expiresAtMs
               /\ records[c.typed].status = "pending" => c.pc = "await"
               /\ records[c.typed].status # "pending" =>
                    c.pc = "resume" /\ c.value = records[c.typed].decision
          /\ ( /\ c.typed # NoId
               /\ c.typed \notin Tracked
               /\ ~(IsSlug(c.typed) /\ \E id \in Tracked : StartsWith(id, c.typed)) ) =>
                 /\ c.pc = "done"
                 /\ c.responses = <<ErrorResponse("approval expired or not found", {})>>]_vars

\* C21 witness: a waitDecision call on a terminal record got its decision, and
\* a later one on the same id, the record removed, was refused as not found
C21_Witness ==
  \E i, j \in 1..Len(calls) :
    /\ i < j
    /\ calls[i].method = "waitDecision" /\ calls[j].method = "waitDecision"
    /\ calls[i].typed = calls[j].typed
    /\ calls[i].late /\ calls[i].pc = "done" /\ Last(calls[i].responses).ok
    /\ calls[j].responses = <<ErrorResponse("approval expired or not found", {})>>
    /\ calls[j].typed \in issued
    /\ calls[j].typed \notin Tracked

\* C22: a waitDecision call whose typed id is 8 hexadecimal characters and is
\* not itself the id of a tracked record is matched against every tracked id,
\* pending or terminal: with exactly one id starting with it the call waits on
\* that record, with two or more it fails with the ambiguity error listing
\* them, with none it fails as not found; a successful response carries the
\* full id of the record waited on.
C22_WaitByPrefix ==
  [][/\ IsWaitStep =>
          LET c == Last(calls')
              matches == {id \in Tracked : StartsWith(id, c.typed)}
          IN (IsSlug(c.typed) /\ c.typed \notin Tracked) =>
               /\ Cardinality(matches) = 1 =>
                    /\ c.target \in matches
                    /\ c.pc \in {"await", "resume"}
                    /\ c.responses = <<>>
               /\ Cardinality(matches) > 1 =>
                    /\ c.pc = "done"
                    /\ c.responses =
                         <<ErrorResponse("ambiguous approval id prefix", matches)>>
               /\ matches = {} =>
                    /\ c.pc = "done"
                    /\ c.responses =
                         <<ErrorResponse("approval expired or not found", {})>>
     /\ \A i \in 1..Len(calls') :
          LET c == calls'[i]
          IN (c.method = "waitDecision" /\ c.pc = "done" /\ c.target # NoId) =>
               /\ Len(c.responses) = 1
               /\ c.responses[1].ok
               /\ c.responses[1].id = c.target]_vars

\* C22 witness: a waitDecision call on a short id got the decision of the one
\* record whose id starts with it, terminal by then, under that record's full id
C22_Witness ==
  \E i \in 1..Len(calls) :
    /\ calls[i].method = "waitDecision"
    /\ IsSlug(calls[i].typed)
    /\ calls[i].target # NoId /\ calls[i].target # calls[i].typed
    /\ calls[i].late
    /\ calls[i].pc = "done"
    /\ Last(calls[i].responses).id = calls[i].target

\* C23: the callers of an expired record, the request caller and the
\* waitDecision callers alike, are answered with a success: no response of
\* theirs is an error, and the last response of a finished one is a final
\* response with decision null and the record's createdAtMs and expiresAtMs.
C23_ExpiryIsSuccess ==
  \A id \in Tracked :
    records[id].status = "expired" =>
      \A i \in WaitersOf(records[id].serial) :
        /\ \A k \in 1..Len(calls[i].responses) : calls[i].responses[k].ok
        /\ calls[i].pc = "done" =>
             LET r == Last(calls[i].responses)
             IN /\ r.status = "final"
                /\ r.error = ""
                /\ r.decision = Null
                /\ r.createdAtMs = records[id].createdAtMs
                /\ r.expiresAtMs = records[id].expiresAtMs

\* C23 witness: an expired record whose request caller, a waitDecision caller
\* that waited through the expiry and one that came after it are all answered
C23_Witness ==
  \E id \in Tracked :
    /\ records[id].status = "expired"
    /\ \E i, j, k \in WaitersOf(records[id].serial) :
         /\ calls[i].method = "request"
         /\ calls[j].method = "waitDecision" /\ ~calls[j].late
         /\ calls[k].method = "waitDecision" /\ calls[k].late
         /\ calls[i].pc = "done" /\ calls[j].pc = "done" /\ calls[k].pc = "done"

\* the step is an exec.approval.request call that reuses a pending approval
IsDedupStep ==
  /\ Len(calls') = Len(calls) + 1
  /\ Subscribed(Last(calls'))
  /\ serials' = serials

\* C24: a request that reuses a pending approval leaves every record as it was,
\* subscribes to that approval's decision, and reports the approval's id,
\* createdAtMs and expiresAtMs in its acknowledgement (two-phase only) and in its
\* final response, which carries the decision the approval's other request
\* callers get.
C24_DedupReportsExisting ==
  [][/\ IsDedupStep =>
          LET c == Last(calls')
          IN /\ records' = records
             /\ c.target \in Tracked
             /\ records[c.target].status = "pending"
             /\ records[c.target].fingerprint = c.fingerprint
             /\ c.serial = records[c.target].serial
             /\ c.pc = "await"
             /\ ~c.twoPhase => c.responses = <<>>
             /\ c.twoPhase =>
                  /\ Len(c.responses) = 1
                  /\ c.responses[1].ok
                  /\ c.responses[1].status = "accepted"
                  /\ c.responses[1].id = c.target
                  /\ c.responses[1].createdAtMs = records[c.target].createdAtMs
                  /\ c.responses[1].expiresAtMs = records[c.target].expiresAtMs
     /\ \A i, j \in 1..Len(calls') :
          LET c == calls'[i]
              d == calls'[j]
          IN ( /\ Subscribed(c) /\ Subscribed(d)
               /\ c.serial = d.serial
               /\ c.pc = "done" /\ d.pc = "done" ) =>
                 /\ Last(c.responses).status = "final"
                 /\ Last(c.responses).id = d.target
                 /\ Last(c.responses).decision = Last(d.responses).decision
                 /\ Last(c.responses).createdAtMs = Last(d.responses).createdAtMs
                 /\ Last(c.responses).expiresAtMs = Last(d.responses).expiresAtMs
                 /\ c.target \in DOMAIN records' =>
                      /\ Last(c.responses).createdAtMs = records'[c.target].createdAtMs
                      /\ Last(c.responses).expiresAtMs = records'[c.target].expiresAtMs]_vars

\* C24 witness: a two-phase resubmission was acknowledged with the id of the
\* approval the first request created and got the same decision, a resolver's
C24_Witness ==
  \E i, j \in 1..Len(calls) :
    /\ i < j
    /\ Subscribed(calls[i]) /\ Subscribed(calls[j])
    /\ calls[i].serial = calls[j].serial
    /\ calls[j].twoPhase
    /\ calls[i].pc = "done" /\ calls[j].pc = "done"
    /\ calls[j].responses[1].status = "accepted"
    /\ calls[j].responses[1].id = calls[i].target
    /\ Last(calls[j].responses).decision \in Decisions
    /\ Last(calls[j].responses).decision = Last(calls[i].responses).decision

\* the step is an exec.approval.request call that got past validation and the
\* lookup of its explicit id
IsFingerprintedRequestStep ==
  /\ Len(calls') = Len(calls) + 1
  /\ Last(calls').method = "request"
  /\ Last(calls').fingerprint # NoFingerprint

\* C25: a request is merged into a pending approval exactly on equal
\* fingerprints: the approval a request call is subscribed to has the call's
\* fingerprint (command and requester), and a request whose fingerprint is that
\* of some pending approval creates no record but reuses a pending one.
C25_MergedIffSameFingerprint ==
  [][IsFingerprintedRequestStep =>
       LET c == Last(calls')
       IN /\ c.target \in DOMAIN records'
          /\ records'[c.target].fingerprint = c.fingerprint
          /\ (\E id \in Tracked : /\ records[id].status = "pending"
                                  /\ records[id].fingerprint = c.fingerprint) =>
               /\ records' = records
               /\ c.target \in Tracked
               /\ records[c.target].status = "pending"]_vars

\* C26: every exec.approval.request call that got past validation and the
\* lookup of its explicit id eventually has its final response.
C26_RequestGetsFinal ==
  \A i \in 1..MaxCalls :
    (Len(calls) >= i /\ Subscribed(calls[i]))
      ~> (Len(calls) >= i /\ Finals(calls[i]) # {})

\* C26 witness: a request made at the horizon, nobody resolving it, has its
\* final response: the timeout
C26_Witness ==
  \E i \in 1..Len(calls) :
    /\ Subscribed(calls[i])
    /\ calls[i].createdAtMs = MaxTime
    /\ Finals(calls[i]) # {}
    /\ Last(calls[i].responses).decision = Null

\* C27: the fields of every record agree: a pending record has no decision, a
\* resolved one has one of the three decisions, an expired one has none, and
\* only a resolved record names who resolved it.
C27_RecordFieldsAgree ==
  \A id \in Tracked :
    /\ records[id].status \in {"pending", "resolved", "expired"}
    /\ records[id].status = "pending" => records[id].decision = Null
    /\ records[id].status = "resolved" =>
         records[id].decision \in {"allow-once", "allow-always", "deny"}
    /\ records[id].status = "expired" => records[id].decision = Null
    /\ records[id].resolvedBy # Null => records[id].status = "resolved"

\* C27 witness: a resolved record naming its resolver next to an expired one
C27_Witness ==
  \E a, b \in Tracked :
    /\ records[a].status = "resolved"
    /\ records[a].resolvedBy \in Resolvers
    /\ records[a].decision = "deny"
    /\ records[b].status = "expired"

\* C28: a record expires timeoutMs after its creation and keeps both timestamps
\* for as long as it is tracked; every 'requested' event and every successful
\* response about it, acknowledgement or final, to a request or a waitDecision
\* caller, carries those two timestamps.
C28_TimestampsAreFixed ==
  [][/\ \A id \in DOMAIN records' :
          /\ records'[id].timeoutMs \in {TimeoutOf(t) : t \in DedupInputs.timeouts}
          /\ records'[id].expiresAtMs = records'[id].createdAtMs + records'[id].timeoutMs
          /\ (id \in Tracked /\ records[id].serial = records'[id].serial) =>
               /\ records'[id].createdAtMs = records[id].createdAtMs
               /\ records'[id].expiresAtMs = records[id].expiresAtMs
          /\ \A k \in 1..Len(broadcasts') :
               ( /\ broadcasts'[k].event = "exec.approval.requested"
                 /\ broadcasts'[k].id = id
                 /\ id \in GeneratedIds ) =>
                   /\ broadcasts'[k].createdAtMs = records'[id].createdAtMs
                   /\ broadcasts'[k].expiresAtMs = records'[id].expiresAtMs
          /\ \A i \in {w \in 1..Len(calls') : calls'[w].serial = records'[id].serial} :
               \A k \in 1..Len(calls'[i].responses) :
                 /\ calls'[i].responses[k].ok
                 /\ calls'[i].responses[k].createdAtMs = records'[id].createdAtMs
                 /\ calls'[i].responses[k].expiresAtMs = records'[id].expiresAtMs
     /\ \A i, j \in 1..Len(calls') :
          (calls'[i].serial = calls'[j].serial /\ calls'[i].serial # 0) =>
            \A k \in 1..Len(calls'[i].responses), l \in 1..Len(calls'[j].responses) :
              /\ calls'[i].responses[k].createdAtMs = calls'[j].responses[l].createdAtMs
              /\ calls'[i].responses[k].expiresAtMs = calls'[j].responses[l].expiresAtMs]_vars

\* C28 witness: a record created without timeoutMs, announced, acknowledged to
\* its two-phase requester and resolved, with the final responses of the
\* requester and of a waitDecision caller sent at a later time
C28_Witness ==
  \E id \in Tracked :
    /\ records[id].timeoutMs = DefaultTimeoutMs
    /\ records[id].createdAtMs < now
    /\ \E k \in 1..Len(broadcasts) :
         broadcasts[k].event = "exec.approval.requested" /\ broadcasts[k].id = id
    /\ \E i, j \in WaitersOf(records[id].serial) :
         /\ calls[i].method = "request" /\ calls[i].twoPhase
         /\ calls[j].method = "waitDecision"
         /\ calls[i].pc = "done" /\ calls[j].pc = "done"
         /\ Len(calls[i].responses) = 2
         /\ Last(calls[j].responses).expiresAtMs = records[id].createdAtMs + DefaultTimeoutMs

\* C29: a resolve call whose typed id is exactly the id of a tracked record that
\* is already terminal fails with 'unknown approval id' and changes no record.
C29_TerminalIdIsUnknown ==
  [][( /\ IsResolveStep
       /\ Last(resolves').typed \in Tracked
       /\ records[Last(resolves').typed].status # "pending" ) =>
         /\ Last(resolves').response = ErrorResponse("unknown approval id", {})
         /\ records' = records]_vars

\* the tracked ids other than the typed one that start with it
OthersSharing(rawId) == {id \in Tracked \ {rawId} : StartsWith(id, rawId)}

\* C30: a typed id that is exactly the id of a pending record and is also a
\* short id that other tracked ids start with designates that record: a resolve
\* call resolves it and nothing else, a waitDecision call waits on it, and
\* neither is refused as ambiguous.
C30_ExactIdFirst ==
  [][/\ ( /\ IsResolveStep
          /\ IsPending(Last(resolves').typed)
          /\ IsSlug(Last(resolves').typed)
          /\ OthersSharing(Last(resolves').typed) # {} ) =>
            LET e == Last(resolves')
            IN /\ e.response.ok
               /\ e.resolvedId = e.typed
               /\ DOMAIN records' = Tracked
               /\ records'[e.typed].status = "resolved"
               /\ \A id \in Tracked \ {e.typed} : records'[id] = records[id]
     /\ ( /\ IsWaitStep
          /\ IsPending(Last(calls').typed)
          /\ IsSlug(Last(calls').typed)
          /\ OthersSharing(Last(calls').typed) # {} ) =>
            LET c == Last(calls')
            IN /\ c.target = c.typed
               /\ c.serial = records[c.typed].serial
               /\ c.pc = "await"
               /\ c.responses = <<>>]_vars

\* C30 witness: a record with a short id was resolved by that id after a record
\* whose id starts with it was announced, which is pending still
C30_Witness ==
  \E a, b \in 1..Len(broadcasts) :
    /\ a < b
    /\ broadcasts[a].event = "exec.approval.requested"
    /\ broadcasts[b].event = "exec.approval.resolved"
    /\ IsSlug(broadcasts[b].id)
    /\ broadcasts[a].id # broadcasts[b].id
    /\ StartsWith(broadcasts[a].id, broadcasts[b].id)
    /\ IsPending(broadcasts[a].id)
    /\ broadcasts[b].id \in Tracked
    /\ records[broadcasts[b].id].status = "resolved"

\* C31: an 'exec.approval.resolved' event is broadcast or forwarded only in a
\* resolve call that succeeds, one of each per call, for the record that call
\* takes from pending to resolved; no other step, a failed or ambiguous resolve
\* and an expiry included, adds one, and no event is ever taken back.
C31_ResolvedEventOnlyOnSuccess ==
  [][/\ Len(broadcasts') >= Len(broadcasts)
     /\ SubSeq(broadcasts', 1, Len(broadcasts)) = broadcasts
     /\ Len(forwards') >= Len(forwards)
     /\ SubSeq(forwards', 1, Len(forwards)) = forwards
     /\ \A k \in (Len(broadcasts) + 1)..Len(broadcasts') :
          broadcasts'[k].event = "exec.approval.resolved" =>
            /\ IsResolveStep
            /\ Last(resolves').response.ok
            /\ Len(broadcasts') = Len(broadcasts) + 1
            /\ broadcasts'[k].id = Last(resolves').resolvedId
            /\ IsPending(broadcasts'[k].id)
            /\ records'[broadcasts'[k].id].status = "resolved"
     /\ \A k \in (Len(forwards) + 1)..Len(forwards') :
          forwards'[k].event = "exec.approval.resolved" =>
            /\ IsResolveStep
            /\ Last(resolves').response.ok
            /\ Len(forwards') = Len(forwards) + 1
            /\ forwards'[k].id = Last(resolves').resolvedId
            /\ IsPending(forwards'[k].id)
            /\ records'[forwards'[k].id].status = "resolved"
     /\ (IsResolveStep /\ ~Last(resolves').response.ok) =>
          broadcasts' = broadcasts /\ forwards' = forwards
     /\ (\E id \in Tracked : IsPending(id) /\ id \in DOMAIN records'
                               /\ records'[id].status = "expired") =>
          broadcasts' = broadcasts /\ forwards' = forwards]_vars

\* C31 witness: a resolve call succeeded and another was refused, and there is
\* one 'resolved' broadcast and one forward
C31_Witness ==
  /\ \E i, j \in 1..Len(resolves) : resolves[i].response.ok /\ ~resolves[j].response.ok
  /\ Cardinality({k \in 1..Len(broadcasts) :
                    broadcasts[k].event = "exec.approval.resolved"}) = 1
  /\ Cardinality({k \in 1..Len(forwards) :
                    forwards[k].event = "exec.approval.resolved"}) = 1

\* the 'requested' events among the first n broadcasts
RequestedUpTo(log, n) ==
  {k \in 1..n : log[k].event = "exec.approval.requested"}

\* C32: the step that registers a record, and no other step, broadcasts one
\* 'exec.approval.requested' event, for that record; so whenever a request
\* caller holds a response about a record, acknowledgement or final, the
\* record's event has been broadcast, and it precedes every 'resolved' event
\* broadcast for the record.
C32_RequestedOncePerRecord ==
  [][/\ serials' = serials + 1 =>
          /\ Len(broadcasts') = Len(broadcasts) + 1
          /\ SubSeq(broadcasts', 1, Len(broadcasts)) = broadcasts
          /\ Last(broadcasts').event = "exec.approval.requested"
          /\ Last(broadcasts').id \in DOMAIN records'
          /\ Last(broadcasts').id \notin Tracked
          /\ records'[Last(broadcasts').id].serial = serials'
          /\ records'[Last(broadcasts').id].status = "pending"
          /\ Last(calls').target = Last(broadcasts').id
     /\ serials' # serials + 1 =>
          /\ serials' = serials
          /\ RequestedUpTo(broadcasts', Len(broadcasts')) =
               RequestedUpTo(broadcasts, Len(broadcasts))
     /\ Cardinality(RequestedUpTo(broadcasts', Len(broadcasts'))) = serials'
     /\ \A i \in 1..Len(calls') :
          (Subscribed(calls'[i]) /\ calls'[i].responses # <<>>) =>
            \E k \in RequestedUpTo(broadcasts', Len(broadcasts')) :
              /\ broadcasts'[k].id = calls'[i].target
              /\ broadcasts'[k].createdAtMs = calls'[i].createdAtMs
     /\ \A k \in 1..Len(broadcasts') :
          broadcasts'[k].event = "exec.approval.resolved" =>
            \E q \in RequestedUpTo(broadcasts', k) :
              broadcasts'[q].id = broadcasts'[k].id]_vars

\* C32 witness: a two-phase requester holds its acknowledgement and its final
\* response, the record was resolved, and one 'requested' event was broadcast,
\* ahead of the 'resolved' one
C32_Witness ==
  /\ serials = 1
  /\ Cardinality(RequestedUpTo(broadcasts, Len(broadcasts))) = 1
  /\ \E i \in 1..Len(calls) :
       /\ Subscribed(calls[i]) /\ calls[i].twoPhase
       /\ Len(calls[i].responses) = 2
  /\ \E k \in 1..Len(broadcasts) : broadcasts[k].event = "exec.approval.resolved"

\* C33: a request without an explicit id is merged only into a pending record;
\* when no record of its fingerprint is pending, terminal ones of that
\* fingerprint being tracked or not, it registers a fresh pending record under
\* an id never used before, announces it with a new 'requested' event and waits
\* for that record's own decision, and the earlier records stay as they were.
C33_DedupOnlyAgainstPending ==
  [][( /\ IsFingerprintedRequestStep
       /\ Last(calls').typed = NoId ) =>
         LET c == Last(calls')
             pendingSame == {id \in Tracked : /\ records[id].status = "pending"
                                              /\ records[id].fingerprint = c.fingerprint}
         IN /\ pendingSame # {} => c.target \in pendingSame
            /\ pendingSame = {} =>
                 /\ c.target \notin Tracked
                 /\ c.target \notin issued
                 /\ DOMAIN records' = Tracked \cup {c.target}
                 /\ \A id \in Tracked : records'[id] = records[id]
                 /\ records'[c.target].status = "pending"
                 /\ records'[c.target].decision = Null
                 /\ records'[c.target].serial = serials + 1
                 /\ records'[c.target].fingerprint = c.fingerprint
                 /\ c.serial = serials + 1
                 /\ c.pc = "await"
                 /\ c.value = Null
                 /\ Len(broadcasts') = Len(broadcasts) + 1
                 /\ Last(broadcasts').event = "exec.approval.requested"
                 /\ Last(broadcasts').id = c.target]_vars

\* C33 witness: a record was resolved and its requester answered; a later
\* request with the same fingerprint and no id waits on a second, pending
\* record, announced in its turn
C33_Witness ==
  \E a, b \in Tracked :
    /\ records[a].status = "resolved"
    /\ records[b].status = "pending"
    /\ records[a].fingerprint = records[b].fingerprint
    /\ records[a].serial < records[b].serial
    /\ \E i, j \in 1..Len(calls) :
         /\ calls[i].method = "request" /\ calls[i].serial = records[a].serial
         /\ calls[i].pc = "done"
         /\ Last(calls[i].responses).decision = records[a].decision
         /\ calls[j].method = "request" /\ calls[j].serial = records[b].serial
         /\ calls[j].typed = NoId
         /\ calls[j].pc = "await"
    /\ Cardinality(RequestedUpTo(broadcasts, Len(broadcasts))) = 2

\* C34: no request caller is refused with 'approval expired or not found', so
\* none holds an acknowledgement followed by that error; a request that was
\* acknowledged is subscribed to the record it was told about.
C34_AcceptedNeverLost ==
  \A i \in 1..Len(calls) :
    calls[i].method = "request" =>
      /\ \A k \in 1..Len(calls[i].responses) :
           calls[i].responses[k].error # "approval expired or not found"
      /\ \A k \in 1..Len(calls[i].responses) :
           calls[i].responses[k].status = "accepted" =>
             /\ k = 1
             /\ calls[i].target = calls[i].responses[k].id
             /\ \A l \in (k + 1)..Len(calls[i].responses) :
                  calls[i].responses[l].ok

\* C34 witness: a two-phase request merged into a pending approval was
\* acknowledged and then, the approval expiring, got the timeout as its final
\* response
C34_Witness ==
  \E i, j \in 1..Len(calls) :
    /\ i < j
    /\ Subscribed(calls[i]) /\ Subscribed(calls[j])
    /\ calls[i].serial = calls[j].serial
    /\ calls[j].twoPhase
    /\ Len(calls[j].responses) = 2
    /\ calls[j].responses[1].status = "accepted"
    /\ calls[j].responses[2].status = "final"
    /\ calls[j].responses[2].decision = Null

\* the step takes the record id from pending to terminal
BecomesTerminal(id) ==
  /\ IsPending(id)
  /\ id \in DOMAIN records'
  /\ records'[id].status # "pending"

\* C35: a step in which a record is resolved or expires changes no other
\* record, neither status, decision nor timer, and no call that waits on
\* another record: such a call is not woken and gets no response.
C35_OtherRecordsUntouched ==
  [][\A id \in Tracked :
       BecomesTerminal(id) =>
         /\ DOMAIN records' = Tracked
         /\ \A other \in Tracked \ {id} : records'[other] = records[other]
         /\ Len(calls') = Len(calls)
         /\ \A i \in 1..Len(calls) :
              calls[i].serial # records[id].serial => calls'[i] = calls[i]]_vars

\* C35 witness: one record is resolved and its requester answered while another
\* record is pending, its timer armed and its requester still waiting
C35_Witness ==
  \E a, b \in Tracked :
    /\ a # b
    /\ records[a].status = "resolved"
    /\ records[b].status = "pending" /\ records[b].timer = "armed"
    /\ \E i, j \in 1..Len(calls) :
         /\ calls[i].serial = records[a].serial /\ calls[i].pc = "done"
         /\ calls[j].serial = records[b].serial /\ calls[j].pc = "await"
         /\ calls[j].responses = <<>>

\* the typed id is 8 hexadecimal characters, in either case
HasSlugShape(s) ==
  /\ Len(s) = 8
  /\ \A i \in 1..Len(s) :
       s[i] \in {"0", "1", "2", "3", "4", "5", "6", "7", "8", "9",
                 "a", "b", "c", "d", "e", "f", "A", "B", "C", "D", "E", "F"}

\* C36: a typed id that is not the id of a tracked record and is not 8
\* hexadecimal characters is never matched as a prefix: a resolve call with it
\* fails with 'unknown approval id' and changes nothing, a waitDecision call
\* with it fails with 'approval expired or not found' and waits on no record,
\* whatever tracked ids start with it.
C36_OnlySlugsArePrefixes ==
  [][/\ ( /\ IsResolveStep
          /\ Last(resolves').typed \notin Tracked
          /\ ~HasSlugShape(Last(resolves').typed) ) =>
            /\ Last(resolves').response = ErrorResponse("unknown approval id", {})
            /\ records' = records
            /\ calls' = calls
            /\ broadcasts' = broadcasts
            /\ forwards' = forwards
     /\ ( /\ IsWaitStep
          /\ Last(calls').typed # NoId
          /\ Last(calls').typed \notin Tracked
          /\ ~HasSlugShape(Last(calls').typed) ) =>
            /\ Last(calls').target = NoId
            /\ Last(calls').pc = "done"
            /\ Last(calls').responses =
                 <<ErrorResponse("approval expired or not found", {})>>]_vars

\* C36 witness: a record is pending under an id of ten characters; a later
\* waitDecision call by its first 8 characters, one of them not hexadecimal,
\* and a resolve call by the same were refused
C36_Witness ==
  /\ IsPending(NonHexId)
  /\ \E i, j \in 1..Len(calls) :
       /\ i < j
       /\ calls[i].method = "request"
       /\ calls[i].serial = records[NonHexId].serial
       /\ calls[j].method = "waitDecision"
       /\ calls[j].typed = NonHexPrefix
       /\ calls[j].responses = <<ErrorResponse("approval expired or not found", {})>>
  /\ \E i \in 1..Len(resolves) :
       /\ resolves[i].typed = NonHexPrefix
       /\ resolves[i].response.error = "unknown approval id"

\* the call was refused because its registration failed
RegistrationFailed(c) ==
  \E k \in 1..Len(c.responses) : c.responses[k].error = "registration failed"

\* C37: a request whose registration fails gets the 'registration failed' error
\* as its only response, then and ever after, and the step announces nothing:
\* no 'requested' broadcast, no forward, and no record is added.
C37_FailedRegistrationIsSilent ==
  [][/\ \A i \in 1..Len(calls') :
          RegistrationFailed(calls'[i]) =>
            /\ calls'[i].responses = <<ErrorResponse("registration failed", {})>>
            /\ calls'[i].pc = "done"
            /\ calls'[i].target = NoId
     /\ ( /\ Len(calls') = Len(calls) + 1
          /\ RegistrationFailed(Last(calls')) ) =>
            /\ broadcasts' = broadcasts
            /\ forwards' = forwards
            /\ records' = records]_vars

\* C37 witness: a two-phase request whose registration failed holds the error
\* alone, nothing was announced for it, and a later request is served
C37_Witness ==
  \E i, j \in 1..Len(calls) :
    /\ i < j
    /\ calls[i].twoPhase
    /\ RegistrationFailed(calls[i])
    /\ Len(calls[i].responses) = 1
    /\ Subscribed(calls[j])
    /\ Len(broadcasts) = 1
    /\ Len(forwards) = 1

\* the message names a command word and carries this full-length id
NamesApproval(text, id) ==
  /\ text # <<>>
  /\ IsApprovalId(id)
  /\ \/ /\ LowerCase(text[1]) \in {COMMAND, COMMAND_ALIAS, TEXT_COMMAND, TEXT_COMMAND_ALIAS}
        /\ \E k \in 2..Len(text) : text[k] = id
     \/ \E word \in {COMMAND, COMMAND_ALIAS} :
          /\ StartsWith(LowerCase(text[1]), word)
          /\ text[1] = SubSeq(text[1], 1, Len(word)) \o id

\* the words of a message, and what follows a command word within its first
WordsOf(text) ==
  {text[k] : k \in 1..Len(text)}
    \cup {SubSeq(text[1], Len(word) + 1, Len(text[1])) :
            word \in {w \in {COMMAND, COMMAND_ALIAS} : text # <<>> /\ Len(text[1]) > Len(w)}}

\* the sender, the channel and the text of the message allow an approval of id
MayApprove(m, id) ==
  /\ m.allowTextCommands
  /\ m.isAuthorizedSender
  /\ NamesApproval(m.text, id)
  /\ m.internal => m.scopes \cap {"operator.approvals", "operator.admin"} # {}

\* an exec.approval.resolve call made for the chat command
ChatResolveStep ==
  /\ Len(resolves') = Len(resolves) + 1
  /\ Last(resolves').resolvedBy = "chat"

\* C38: the chat approve command calls exec.approval.resolve only for a message
\* from an authorized sender that parses to a full UUID id with a decision and,
\* on an internal channel, from a client holding operator.approvals or
\* operator.admin; any other message makes no resolve call and changes no record.
C38_ChatResolveOnlyWhenAllowed ==
  [][/\ ChatResolveStep =>
          /\ command'.handled
          /\ MayApprove(command'.message, Last(resolves').typed)
          /\ command'.parsed.ok
          /\ command'.parsed.id = Last(resolves').typed
     /\ ( /\ command' # command
          /\ ~ \E id \in WordsOf(command'.message.text) : MayApprove(command'.message, id) ) =>
            /\ resolves' = resolves
            /\ records' = records
            /\ calls' = calls
            /\ broadcasts' = broadcasts]_vars

\* C38 witness: an internal client holding operator.approvals approved a
\* pending request from chat, and the record carries that resolution
C38_Witness ==
  /\ command.handled
  /\ command.message.internal
  /\ command.message.scopes = {"operator.approvals"}
  /\ resolves # <<>>
  /\ Last(resolves).resolvedBy = "chat"
  /\ Last(resolves).response.ok
  /\ UuidId \in Tracked
  /\ records[UuidId].status = "resolved"
  /\ records[UuidId].resolvedBy = "chat"

\* the words of the message after the command word
WordsAfterCommand(text) ==
  IF \E word \in {COMMAND, COMMAND_ALIAS} :
       StartsWith(LowerCase(text[1]), word) /\ Len(text[1]) > Len(word)
    THEN <<text[1]>> \o Tail(text)
    ELSE Tail(text)

\* C39: what the chat approve command submits is one of the three decision
\* tags: allow-once for a message with an id alone, and for a message with two
\* words the tag its decision word stands for, in whichever position it is.
C39_SubmitsValidDecision ==
  [][ChatResolveStep =>
       LET words == WordsAfterCommand(command'.message.text)
           submitted == Last(resolves').decision
       IN /\ submitted \in {"allow-once", "allow-always", "deny"}
          /\ Len(words) = 1 => submitted = "allow-once"
          /\ Len(words) = 2 =>
               \E k \in 1..2 :
                 /\ LowerCase(words[k]) \in DOMAIN DECISION_ALIASES
                 /\ submitted = DECISION_ALIASES[LowerCase(words[k])]]_vars

\* the characters of an id parameter between its leading and trailing blanks
Unpadded(rawId) ==
  CHOOSE t \in {SubSeq(rawId, i, j) : i \in 1..(Len(rawId) + 1), j \in 0..Len(rawId)} :
    /\ \E i \in 1..(Len(rawId) + 1), j \in 0..Len(rawId) :
         /\ t = SubSeq(rawId, i, j)
         /\ \A k \in 1..Len(rawId) : (k < i \/ k > j) => rawId[k] = " "
    /\ t # <<>> => (t[1] # " " /\ t[Len(t)] # " ")

\* the step is a request made with an id parameter
IsRawRequestStep ==
  /\ Len(calls') = Len(calls) + 1
  /\ Last(calls').method = "request"
  /\ requestedId'.sent

\* C40: an id parameter that is empty or all blanks counts as absent: the
\* request reuses the pending approval of its fingerprint if there is one and
\* otherwise gets a generated id. Any other id parameter is trimmed first: the
\* request is refused as a duplicate when the trimmed id is tracked, and
\* otherwise creates the record under the trimmed id.
C40_BlankIdIsAbsentAndIdIsTrimmed ==
  [][IsRawRequestStep =>
       LET id == Unpadded(requestedId'.id)
           c == Last(calls')
           same == {p \in Tracked : /\ records[p].status = "pending"
                                    /\ records[p].fingerprint = c.fingerprint}
       IN IF id = <<>>
            THEN /\ Subscribed(c)
                 /\ same # {} => (c.target \in same /\ records' = records)
                 /\ same = {} =>
                      /\ c.target \in GeneratedIds \ Tracked
                      /\ DOMAIN records' = Tracked \cup {c.target}
            ELSE IF id \in Tracked
              THEN /\ c.responses = <<ErrorResponse("approval id already pending", {})>>
                   /\ records' = records
              ELSE /\ Subscribed(c)
                   /\ c.target = id
                   /\ DOMAIN records' = Tracked \cup {id}]_vars

\* C40 witness: a request sent with a blank id reused the approval a request
\* with a padded id had created under the trimmed id
C40_Witness ==
  /\ Len(calls) = 2
  /\ requestedId = [sent |-> TRUE, id |-> <<" ", " ">>]
  /\ DOMAIN records = {SlugId}
  /\ calls[1].target = SlugId
  /\ calls[2].target = SlugId
  /\ calls[2].typed = NoId

====
